---- MODULE Spec2Model ----
(***************************************************************************)
(* Model of relocate_files.py: the selection tree and the window's event   *)
(* handlers (class App), and the move executor with its cleanup sweep     *)
(* (perform_moves_bytes and the functions it calls).                       *)
(*                                                                         *)
(* The specifications share the variables:                                 *)
(*   Spec      the window: analyse, click tree rows, apply, install deps   *)
(*   SpecMove  one run of perform_moves_bytes over a small filesystem      *)
(*   SpecTree  the selection tree alone: build from a plan, toggle rows    *)
(*   SpecScan  analyses of the source folders between dependency installs  *)
(*   SpecClassify  one call of build_media_item on a file name             *)
(* Each specification holds the other parts' variables at their idle value.*)
(***************************************************************************)
EXTENDS Integers, Sequences, FiniteSets, TLC

VARIABLES
    \* ---- class App ----
    node_checked,    \* nid -> "True" | "False" | "None"   (sequence indexed by nid)
    node_kind,       \* nid -> "movies" | "series" | "show" | "season" | "file"
    node_payload,    \* nid -> the bound MediaItem, 0 for None: the item's id, or
                     \* its descriptor where an analysis built it (SpecScan)
    node_children,   \* nid -> sequence of child nids
    node_parent,     \* nid -> parent nid, 0 for None
    plan,            \* self.plan: sequence of item ids, or of the descriptors
                     \* an analysis returned (SpecScan)
    btn_analyze,     \* "normal" | "disabled"
    btn_apply,
    btn_install,
    HAS_PTN,
    HAS_GUESSIT,
    sources,         \* the source listbox: sequence of root names
    dst_var,         \* the destination entry's text
    analyzing,       \* analysis workers in flight (started, finish() not yet run)
    moving,          \* move workers in flight (started, _finish_after_apply not yet run)
    installing,      \* pip workers in flight
    at_box,          \* _finish_after_apply calls that stand at their message box
                     \* (lines 760/763): the box is open, line 765 is still to run
    selected_plan,   \* on_apply's local of that name, as the handler that ran last
                     \* left it: the list handed to perform_moves_bytes right
                     \* after on_apply, <<>> once any other handler has run
    \* ---- perform_moves_bytes and the filesystem it works on ----
    fs,              \* file path -> [id, len]: the file's content and bytes present
    dirs,            \* the directories that exist
    batch,           \* the plan argument: sequence of [src_path, dst_dir, dst_path]
    source_roots,    \* the source_roots argument
    cross_volume,    \* sources and destination are on different volumes
    pc,              \* where perform_moves_bytes stands
    idx,             \* index in batch of the item being moved
    queue,           \* companion files of the item still to move
    copying,         \* the copy in progress: [src, dst, off, comp]
    done,            \* the running total add_bytes keeps
    total_bytes,     \* compute_total_bytes(batch) before the batch started
    errors,          \* the list perform_moves_bytes returns
    errs,            \* the list _cleanup_dirs_after_moves is building
    cands,           \* candidate directories the sweep has not visited yet
    faults,          \* I/O failures injected so far
    trace,           \* per source file: what was attempted and reported
    swept,           \* the sweep so far: [dir, outcome] per candidate visited, in order
    \* ---- the arguments of the call that ran last (SpecTree) ----
    toggled,         \* [nid, new_state] of the last _toggle_node call, <<>> if none
    \* ---- analyze_media_in_sources (SpecScan) ----
    src_folders,     \* the src_folders argument of the analysis in flight
    dst_root,        \* its dst_root argument
    scan_idx,        \* index in src_folders of the folder to walk next
    items,           \* the list the analysis is building
    classified,      \* every build_media_item call so far: [fname, parent, dst_root, item]
    scans,           \* analyses completed
    \* ---- build_media_item alone (SpecClassify) ----
    request,         \* the call: <<[src_path, dst_root, ptn, gi]>>, <<>> if none
    descriptor       \* what it returned: <<[item, asked, cleaned_stem]>>, <<>> before

appVars == <<node_checked, node_kind, node_payload, node_children, node_parent,
             plan, btn_analyze, btn_apply, btn_install, HAS_PTN, HAS_GUESSIT,
             sources, dst_var, analyzing, moving, installing, at_box,
             selected_plan>>

vars == <<node_checked, node_kind, node_payload, node_children, node_parent,
          plan, btn_analyze, btn_apply, btn_install, HAS_PTN, HAS_GUESSIT,
          sources, dst_var, analyzing, moving, installing, at_box, selected_plan,
          fs, dirs, batch, source_roots, cross_volume, pc, idx, queue, copying, done,
          total_bytes, errors, errs, cands, faults, trace, swept, toggled,
          src_folders, dst_root, scan_idx, items, classified, scans,
          request, descriptor>>

scanVars == <<src_folders, dst_root, scan_idx, items, classified, scans,
              request, descriptor>>

\* the variables neither the window's nor the executor's specification changes
sideVars == <<toggled, scanVars>>

moveVars == <<fs, dirs, batch, source_roots, cross_volume, pc, idx, queue, copying,
              done, total_bytes, errors, errs, cands, faults, trace, swept>>

\* ------------------------------------------------------------------------
\* Bounds
\* ------------------------------------------------------------------------
\* episodes of show 1, season 1, that an analysis can find
NumEpisodes == 3
\* workers (analysis, move, pip) that may be in flight together
MaxInFlight == 2

\* ------------------------------------------------------------------------
\* Generic helpers
\* ------------------------------------------------------------------------
RECURSIVE SetToSeq(_)
\* the elements of a finite set of integers, ascending (Python's sorted())
SetToSeq(S) ==
    IF S = {} THEN <<>>
    ELSE LET m == CHOOSE x \in S : \A y \in S : x <= y
         IN  <<m>> \o SetToSeq(S \ {m})

Range(s) == {s[i] : i \in DOMAIN s}

\* ------------------------------------------------------------------------
\* MediaItem values an analysis can produce (the fields the tree reads), each
\* known by its id. Titles and file names are numbered in the order of their
\* lower-cased text.
\* ------------------------------------------------------------------------
MediaItem(id, ct, show, season, fname) ==
    [id |-> id, content_type |-> ct, show_title |-> show, season |-> season,
     dst_filename |-> fname]

\* ids 1..NumEpisodes: show 1 season 1; then one movie, show 1 season 2 and
\* show 2 season 1
NumItems == NumEpisodes + 3

\* (the walk finds the files of a directory in no particular name order)
ItemOf(id) ==
    IF id <= NumEpisodes THEN MediaItem(id, "series", 1, 1, NumItems + 1 - id)
    ELSE IF id = NumEpisodes + 1 THEN MediaItem(id, "movie", 0, 0, NumItems + 1 - id)
    ELSE IF id = NumEpisodes + 2 THEN MediaItem(id, "series", 1, 2, NumItems + 1 - id)
    ELSE MediaItem(id, "series", 2, 1, NumItems + 1 - id)

\* what _populate_tree reads of a plan entry: the value bound to its file row,
\* its content_type, show_title and season (0 for None), and the places of
\* show_title.lower() and dst_filename.lower() in the order of Python's str
\* (equal texts have equal places)
Row(payload, content_type, show_title, show_key, season, name_key) ==
    [payload |-> payload, content_type |-> content_type, show_title |-> show_title,
     show_key |-> show_key, season |-> season, name_key |-> name_key]

\* the entry of an item given by its id
ItemRow(id) ==
    Row(id, ItemOf(id).content_type, ItemOf(id).show_title, ItemOf(id).show_title,
        ItemOf(id).season, ItemOf(id).dst_filename)

\* the entries of a plan of item ids
ItemRows(p) == [i \in DOMAIN p |-> ItemRow(p[i])]

\* key=lambda x: x.dst_filename.lower()
NameKey(x) == x.name_key

RECURSIVE InsertByName(_, _)
\* insert x after every element whose key is <= its key: a stable insertion
InsertByName(s, x) ==
    IF s = <<>> THEN <<x>>
    ELSE IF NameKey(x) < NameKey(Head(s)) THEN <<x>> \o s
         ELSE <<Head(s)>> \o InsertByName(Tail(s), x)

RECURSIVE SortedByName(_)
\* sorted(items, key=lambda x: x.dst_filename.lower()): stable
SortedByName(s) ==
    IF s = <<>> THEN <<>>
    ELSE InsertByName(SortedByName(SubSeq(s, 1, Len(s) - 1)), s[Len(s)])

\* the lists analyze_media_in_sources can return: the first j files of the
\* walk, for every j (none; one season; the movie too; a second season; a
\* second show)
Plans == {SetToSeq(1..j) : j \in 0..NumItems}

\* ------------------------------------------------------------------------
\* The tree's dictionaries (App._init_tree_state .. App._populate_tree)
\* ------------------------------------------------------------------------
True == "True"
False == "False"
None == "None"

\* App._init_tree_state: the five dictionaries, empty
EmptyTree ==
    [node_checked |-> <<>>, node_kind |-> <<>>, node_payload |-> <<>>,
     node_children |-> <<>>, node_parent |-> <<>>]

\* the dictionaries as they are now
Tree ==
    [node_checked |-> node_checked, node_kind |-> node_kind,
     node_payload |-> node_payload, node_children |-> node_children,
     node_parent |-> node_parent]

\* a variant that leaves the rows and their states in place
ClearTreeKeepsRows(t) == t

\* App._clear_tree: every row deleted, the dictionaries re-initialised
ClearTree(t) == EmptyTree

Nodes(t) == DOMAIN t.node_checked

\* App._make_node: the new row gets the next id (tree.insert)
MakeNode(t, parent, checked, kind, payload) ==
    LET nid == Len(t.node_checked) + 1
        ch  == Append(t.node_children, <<>>)
    IN  [node_checked  |-> Append(t.node_checked, checked),
         node_kind     |-> Append(t.node_kind, kind),
         node_payload  |-> Append(t.node_payload, payload),
         node_children |-> IF parent # 0
                           THEN [ch EXCEPT ![parent] = Append(@, nid)]
                           ELSE ch,
         node_parent   |-> Append(t.node_parent, parent)]

RECURSIVE AddFiles(_, _, _)
\* the loops of _populate_tree that hang one file row per item under a node
AddFiles(t, parent, its) ==
    IF its = <<>> THEN t
    ELSE AddFiles(MakeNode(t, parent, True, "file", Head(its).payload), parent, Tail(its))

\* it.season or 1
SeasonKey(x) == IF x.season = 0 THEN 1 ELSE x.season

IsMovie(x) == x.content_type = "movie"
IsSeries(x) == x.content_type = "series"

\* a variant that hangs a show's items under each of its seasons
SeriesItemsOfShow(p, title, season) ==
    SelectSeq(p, LAMBDA x : IsSeries(x) /\ x.show_title = title)

\* series_map[title][season]: the plan's items of that show and season, in
\* plan order
SeriesItems(p, title, season) ==
    SelectSeq(p, LAMBDA x : IsSeries(x) /\ x.show_title = title
                            /\ SeasonKey(x) = season)

\* where the plan has each key of series_map for the first time
FirstOfTitle(p) ==
    {j \in DOMAIN p : /\ IsSeries(p[j])
                      /\ \A k \in 1..(j - 1) :
                            ~(IsSeries(p[k]) /\ p[k].show_title = p[j].show_title)}

RECURSIVE TitlesFrom(_, _)
\* the titles at the places F, by their keys; those of equal key in plan order
TitlesFrom(p, F) ==
    IF F = {} THEN <<>>
    ELSE LET m == CHOOSE j \in F :
                      \A k \in F : \/ p[j].show_key < p[k].show_key
                                   \/ (p[j].show_key = p[k].show_key /\ j <= k)
         IN  <<p[m].show_title>> \o TitlesFrom(p, F \ {m})

\* sorted(series_map.keys(), key=lambda s: s.lower())
Titles(p) == TitlesFrom(p, FirstOfTitle(p))

\* series_map[title].keys()
Seasons(p, title) ==
    {SeasonKey(p[i]) : i \in {j \in DOMAIN p : IsSeries(p[j])
                                               /\ p[j].show_title = title}}

RECURSIVE AddSeasons(_, _, _, _, _)
AddSeasons(t, p, n_title, title, seasons) ==
    IF seasons = <<>> THEN t
    ELSE LET t1     == MakeNode(t, n_title, True, "season", 0)
             n_seas == Len(t1.node_checked)
             t2     == AddFiles(t1, n_seas, SortedByName(SeriesItems(p, title, Head(seasons))))
         IN  AddSeasons(t2, p, n_title, title, Tail(seasons))

RECURSIVE AddShows(_, _, _, _)
AddShows(t, p, n_series, titles) ==
    IF titles = <<>> THEN t
    ELSE LET t1      == MakeNode(t, n_series, True, "show", 0)
             n_title == Len(t1.node_checked)
             t2      == AddSeasons(t1, p, n_title, Head(titles),
                                   SetToSeq(Seasons(p, Head(titles))))
         IN  AddShows(t2, p, n_series, Tail(titles))

\* App._populate_tree on the entries p of a plan, the dictionaries it leaves
PopulateTree(p) ==
    LET movies == SelectSeq(p, IsMovie)
        t1 == IF movies # <<>>
              THEN LET tm == MakeNode(EmptyTree, 0, True, "movies", 0)
                   IN  AddFiles(tm, Len(tm.node_checked), SortedByName(movies))
              ELSE EmptyTree
        t2 == IF Titles(p) # <<>>
              THEN LET ts == MakeNode(t1, 0, True, "series", 0)
                   IN  AddShows(ts, p, Len(ts.node_checked), Titles(p))
              ELSE t1
    IN  t2

\* App._has_any_leaf_selected
HasAnyLeafSelected(t) ==
    \E nid \in Nodes(t) : t.node_kind[nid] = "file" /\ t.node_checked[nid] = True

\* a variant that lets a row's parent gate it: only rows under a checked parent
GetSelectedItemsGated(t) ==
    LET rows == SelectSeq([i \in Nodes(t) |-> i],
                          LAMBDA nid : t.node_kind[nid] = "file"
                                       /\ t.node_checked[nid] = True
                                       /\ t.node_checked[t.node_parent[nid]] = True)
    IN  [i \in DOMAIN rows |-> t.node_payload[rows[i]]]

\* App.get_selected_items: the payloads of the checked file rows, in row order
GetSelectedItems(t) ==
    LET rows == SelectSeq([i \in Nodes(t) |-> i],
                          LAMBDA nid : t.node_kind[nid] = "file"
                                       /\ t.node_checked[nid] = True
                                       /\ t.node_payload[nid] # 0)
    IN  [i \in DOMAIN rows |-> t.node_payload[rows[i]]]

\* a variant that stops at the node's own children
SetDescendantsChildrenOnly(t, chk, nid, state_bool) ==
    [n \in DOMAIN chk |->
        IF n = nid \/ t.node_parent[n] = nid THEN state_bool ELSE chk[n]]

RECURSIVE SetDescendants(_, _, _, _)
RECURSIVE SetDescendantsOfAll(_, _, _, _)
\* App._set_descendants: the node, then each child's subtree
SetDescendants(t, chk, nid, state_bool) ==
    SetDescendantsOfAll(t, [chk EXCEPT ![nid] = state_bool],
                        t.node_children[nid], state_bool)

SetDescendantsOfAll(t, chk, children, state_bool) ==
    IF children = <<>> THEN chk
    ELSE SetDescendantsOfAll(t, SetDescendants(t, chk, Head(children), state_bool),
                             Tail(children), state_bool)

\* a variant without the third state
AggregateNeverPartial(chk, children) ==
    IF \A i \in DOMAIN children : chk[children[i]] = True THEN True ELSE False

\* the tri-state of a parent from its children's states (_recalc_ancestors, lines 827-833)
Aggregate(chk, children) ==
    IF \A i \in DOMAIN children : chk[children[i]] = True THEN True
    ELSE IF \A i \in DOMAIN children : chk[children[i]] = False THEN False
    ELSE None

\* a variant that recomputes the immediate parent only
RecalcFromOnce(t, chk, parent) ==
    IF parent = 0 THEN chk
    ELSE [chk EXCEPT ![parent] = Aggregate(chk, t.node_children[parent])]

RECURSIVE RecalcFrom(_, _, _)
\* the loop of _recalc_ancestors, from a parent upwards
RecalcFrom(t, chk, parent) ==
    IF parent = 0 THEN chk
    ELSE RecalcFrom(t, [chk EXCEPT ![parent] = Aggregate(chk, t.node_children[parent])],
                    t.node_parent[parent])

\* App._recalc_ancestors
RecalcAncestors(t, chk, nid) == RecalcFrom(t, chk, t.node_parent[nid])

\* a variant whose flip leaves a partial row partial
NewStatePartialStays(cur, new_state) ==
    IF new_state = None
    THEN (IF cur = None THEN None ELSE IF cur = True THEN False ELSE True)
    ELSE new_state

\* the state _toggle_node sets: the explicit one, else the flip (None -> True)
NewState(cur, new_state) ==
    IF new_state = None
    THEN (IF cur = None THEN True ELSE IF cur = True THEN False ELSE True)
    ELSE new_state

\* a variant that sets the rows below the node's parent, the node's siblings
\* with them
ToggleNodeWithSiblings(t, nid, new_state) ==
    LET st  == NewState(t.node_checked[nid], new_state)
        top == IF t.node_parent[nid] = 0 THEN nid ELSE t.node_parent[nid]
    IN  RecalcAncestors(t, SetDescendants(t, t.node_checked, top, st), top)

\* App._toggle_node, the node_checked it leaves
ToggleNode(t, nid, new_state) ==
    LET st == NewState(t.node_checked[nid], new_state)
    IN  RecalcAncestors(t, SetDescendants(t, t.node_checked, nid, st), nid)

\* ------------------------------------------------------------------------
\* The window (class App): state after __init__ and one action per handler
\* ------------------------------------------------------------------------
\* the names a source folder dialog can return, and the texts of the
\* destination entry (" " is a text that .strip() turns into "")
SourceNames == {"r1"}
DstTexts == {" ", "nas"}

\* str.strip() on the destination texts
Strip(text) == IF text = " " THEN "" ELSE text

\* the executor's variables while the window's specification runs
IdleMove ==
    /\ fs = <<>>
    /\ dirs = {}
    /\ batch = <<>>
    /\ source_roots = <<>>
    /\ cross_volume = FALSE
    /\ pc = "idle"
    /\ idx = 0
    /\ queue = <<>>
    /\ copying = <<>>
    /\ done = 0
    /\ total_bytes = 0
    /\ errors = <<>>
    /\ errs = <<>>
    /\ cands = {}
    /\ faults = 0
    /\ trace = <<>>
    /\ swept = <<>>

\* the analysis variables while another specification runs
IdleScan ==
    /\ src_folders = <<>>
    /\ dst_root = ""
    /\ scan_idx = 0
    /\ items = <<>>
    /\ classified = {}
    /\ scans = 0
    /\ request = <<>>
    /\ descriptor = <<>>

\* _update_deps_banner: the install button is offered while something is missing
DepsButton(ptn, gi) == IF ptn /\ gi THEN "disabled" ELSE "normal"

InFlight == analyzing + moving + installing

treeVars == <<node_checked, node_kind, node_payload, node_children, node_parent>>

\* assign the five dictionaries
SetTree(t) ==
    /\ node_checked' = t.node_checked
    /\ node_kind' = t.node_kind
    /\ node_payload' = t.node_payload
    /\ node_children' = t.node_children
    /\ node_parent' = t.node_parent

InitApp ==
    /\ node_checked = <<>>
    /\ node_kind = <<>>
    /\ node_payload = <<>>
    /\ node_children = <<>>
    /\ node_parent = <<>>
    /\ plan = <<>>
    /\ HAS_PTN \in BOOLEAN
    /\ HAS_GUESSIT \in BOOLEAN
    /\ btn_analyze = "normal"
    /\ btn_apply = "disabled"
    /\ btn_install = DepsButton(HAS_PTN, HAS_GUESSIT)
    /\ sources = <<"r1">>
    /\ dst_var = "nas"
    /\ analyzing = 0
    /\ moving = 0
    /\ installing = 0
    /\ at_box = 0
    /\ selected_plan = <<>>

\* messagebox.showerror and showinfo return when their box is closed; until
\* then the box holds the window's input, so no handler of a button, a key
\* or a click starts, while the callbacks queued with after(0) still run
NoBox == at_box = 0

\* add_source_dialog / _add_source: a new, non-empty path is appended
add_source_dialog(p) ==
    /\ NoBox
    /\ p \notin Range(sources)
    /\ sources' = Append(sources, p)
    /\ selected_plan' = <<>>
    /\ UNCHANGED <<at_box, treeVars, plan, btn_analyze, btn_apply, btn_install, HAS_PTN,
                   HAS_GUESSIT, dst_var, analyzing, moving, installing, moveVars, sideVars>>

\* remove_selected_sources: the selected rows are deleted
remove_selected_sources(sel) ==
    /\ NoBox
    /\ sel # {}
    /\ sel \subseteq DOMAIN sources
    /\ sources' = SelectSeq(sources, LAMBDA r : \A i \in sel : sources[i] # r)
    /\ selected_plan' = <<>>
    /\ UNCHANGED <<at_box, treeVars, plan, btn_analyze, btn_apply, btn_install, HAS_PTN,
                   HAS_GUESSIT, dst_var, analyzing, moving, installing, moveVars, sideVars>>

\* pick_dst, and typing into the entry bound to dst_var (line 584):
\* the dialog only ever sets a non-empty path, the entry takes any text
set_dst(text) ==
    /\ NoBox
    /\ text # dst_var
    /\ dst_var' = text
    /\ selected_plan' = <<>>
    /\ UNCHANGED <<at_box, treeVars, plan, btn_analyze, btn_apply, btn_install, HAS_PTN,
                   HAS_GUESSIT, sources, analyzing, moving, installing, moveVars, sideVars>>

\* on_analyze, up to the start of its worker thread
on_analyze ==
    /\ NoBox
    /\ btn_analyze = "normal"
    /\ InFlight < MaxInFlight
    /\ sources # <<>>
    /\ Strip(dst_var) # ""
    \* _set_busy(True); btn_apply disabled; _clear_tree()
    /\ btn_analyze' = "disabled"
    /\ btn_apply' = "disabled"
    /\ btn_install' = "disabled"
    /\ SetTree(ClearTree(Tree))
    /\ analyzing' = analyzing + 1
    /\ selected_plan' = <<>>
    /\ UNCHANGED <<at_box, plan, HAS_PTN, HAS_GUESSIT, sources, dst_var, moving,
                   installing, moveVars, sideVars>>

\* on_analyze.finish, run by the window once the worker has its plan p
analyze_finish(p) ==
    /\ analyzing > 0
    /\ plan' = p
    /\ SetTree(PopulateTree(ItemRows(p)))
    /\ btn_apply' = IF HasAnyLeafSelected(PopulateTree(ItemRows(p))) THEN "normal" ELSE "disabled"
    \* _set_busy(False) leaves btn_apply and btn_install as they are
    /\ btn_analyze' = "normal"
    /\ analyzing' = analyzing - 1
    /\ selected_plan' = <<>>
    /\ UNCHANGED <<at_box, btn_install, HAS_PTN, HAS_GUESSIT, sources, dst_var, moving,
                   installing, moveVars, sideVars>>

\* _on_tree_click(row) is _toggle_node(row); new_state is None for a click
toggle_node(nid, new_state) ==
    /\ NoBox
    /\ nid \in Nodes(Tree)
    /\ node_checked' = ToggleNode(Tree, nid, new_state)
    /\ btn_apply' = IF HasAnyLeafSelected([Tree EXCEPT !.node_checked = node_checked'])
                    THEN "normal" ELSE "disabled"
    /\ selected_plan' = <<>>
    /\ UNCHANGED <<at_box, node_kind, node_payload, node_children, node_parent, plan,
                   btn_analyze, btn_install, HAS_PTN, HAS_GUESSIT, sources, dst_var,
                   analyzing, moving, installing, moveVars, sideVars>>

\* on_apply, up to the start of its worker thread; total is what
\* compute_total_bytes finds on disk (the early returns change nothing)
on_apply(total) ==
    /\ NoBox
    /\ btn_apply = "normal"
    /\ InFlight < MaxInFlight
    /\ GetSelectedItems(Tree) # <<>>
    /\ total > 0
    /\ selected_plan' = GetSelectedItems(Tree)
    \* _set_busy(True)
    /\ btn_analyze' = "disabled"
    /\ btn_apply' = "disabled"
    /\ btn_install' = "disabled"
    /\ moving' = moving + 1
    /\ UNCHANGED <<at_box, treeVars, plan, HAS_PTN, HAS_GUESSIT, sources, dst_var,
                   analyzing, installing, moveVars, sideVars>>

\* _finish_after_apply, run by the window once a move worker has returned, up
\* to its message box: _set_busy(False) (line 758), then the box opens
finish_after_apply ==
    /\ moving > 0
    /\ btn_analyze' = "normal"
    /\ moving' = moving - 1
    /\ at_box' = at_box + 1
    /\ selected_plan' = <<>>
    /\ UNCHANGED <<treeVars, plan, btn_apply, btn_install, HAS_PTN, HAS_GUESSIT,
                   sources, dst_var, analyzing, installing, moveVars, sideVars>>

\* _finish_after_apply once its box is closed (line 765): btn_apply disabled,
\* _clear_tree(), plan = []
finish_after_apply_closed ==
    /\ at_box > 0
    /\ btn_apply' = "disabled"
    /\ SetTree(ClearTree(Tree))
    /\ plan' = <<>>
    /\ at_box' = at_box - 1
    /\ selected_plan' = <<>>
    /\ UNCHANGED <<btn_analyze, btn_install, HAS_PTN, HAS_GUESSIT, sources, dst_var,
                   analyzing, moving, installing, moveVars, sideVars>>

\* on_install_deps, up to the start of its worker thread
on_install_deps ==
    /\ NoBox
    /\ btn_install = "normal"
    /\ InFlight < MaxInFlight
    /\ ~(HAS_PTN /\ HAS_GUESSIT)
    \* btn_install disabled; _set_busy(True)
    /\ btn_install' = "disabled"
    /\ btn_analyze' = "disabled"
    /\ btn_apply' = "disabled"
    /\ installing' = installing + 1
    /\ selected_plan' = <<>>
    /\ UNCHANGED <<at_box, treeVars, plan, HAS_PTN, HAS_GUESSIT, sources, dst_var,
                   analyzing, moving, moveVars, sideVars>>

\* on_install_deps.finish: refresh_imports() finds each library or not
install_finish(ptn, gi) ==
    /\ installing > 0
    /\ HAS_PTN' = ptn
    /\ HAS_GUESSIT' = gi
    \* _update_deps_banner(); _set_busy(False)
    /\ btn_install' = DepsButton(ptn, gi)
    /\ btn_analyze' = "normal"
    /\ installing' = installing - 1
    /\ selected_plan' = <<>>
    /\ UNCHANGED <<at_box, treeVars, plan, btn_apply, sources, dst_var, analyzing, moving, moveVars, sideVars>>

Init ==
    /\ InitApp
    /\ IdleMove
    /\ IdleScan
    /\ toggled = <<>>

Next ==
    \/ \E p \in SourceNames : add_source_dialog(p)
    \/ \E sel \in SUBSET (DOMAIN sources) : remove_selected_sources(sel)
    \/ \E text \in DstTexts : set_dst(text)
    \/ on_analyze
    \/ \E p \in Plans : analyze_finish(p)
    \/ \E nid \in Nodes(Tree), st \in {None, True, False} : toggle_node(nid, st)
    \/ \E total \in {0, 1} : on_apply(total)
    \/ finish_after_apply
    \/ finish_after_apply_closed
    \/ on_install_deps
    \/ \E ptn \in BOOLEAN, gi \in BOOLEAN : install_finish(ptn, gi)

Spec == Init /\ [][Next]_vars

\* ========================================================================
\* Properties of the window (checked under Spec)
\* ========================================================================
NonFileNodes == {nid \in DOMAIN node_kind : node_kind[nid] # "file"}
FileNodes == {nid \in DOMAIN node_kind : node_kind[nid] = "file"}
ChildStates(nid) == {node_checked[node_children[nid][i]] : i \in DOMAIN node_children[nid]}

\* C1: after build and after any toggles, every non-File node's state is the
\* aggregate of its children's states: Checked if all are Checked, Unchecked
\* if all are Unchecked, Partial otherwise.
C1_AggregateOfChildren ==
    \A nid \in NonFileNodes :
        /\ (ChildStates(nid) = {True}) => node_checked[nid] = True
        /\ (ChildStates(nid) = {False}) => node_checked[nid] = False
        /\ (ChildStates(nid) \notin {{True}, {False}}) => node_checked[nid] = None

\* a show row is Partial under a Partial category row while one of its seasons
\* is fully Checked and another fully Unchecked
C1_Witness ==
    \E nid \in NonFileNodes :
        /\ node_kind[nid] = "show"
        /\ node_checked[nid] = None
        /\ node_checked[node_parent[nid]] = None
        /\ {True, False} \subseteq ChildStates(nid)

\* the items bound to the File rows that are Checked now
CheckedLeafItems ==
    {id \in Range(plan) : \E nid \in FileNodes :
                              node_payload[nid] = id /\ node_checked[nid] = True}

\* C2: the list handed to the executor by on_apply is exactly the planned
\* items whose File row is Checked at that moment, whatever their ancestors show.
C2_HandedAreCheckedLeaves ==
    (moving > 0 /\ selected_plan # <<>>) =>
        /\ Range(selected_plan) = CheckedLeafItems
        /\ \A i, j \in DOMAIN selected_plan : i # j => selected_plan[i] # selected_plan[j]

\* a batch was handed over while a Checked row sat under a Partial parent and
\* another row was Unchecked
C2_Witness ==
    /\ moving > 0
    /\ selected_plan # <<>>
    /\ Len(selected_plan) < Len(plan)
    /\ \E nid \in FileNodes :
           /\ node_checked[nid] = True
           /\ node_checked[node_parent[nid]] = None
           /\ node_payload[nid] \in Range(selected_plan)

\* C8: at most one batch (analysis or move) is in flight at any time.
C8_OneBatchInFlight == analyzing + moving <= 1

\* C19: once a move batch has ended, _finish_after_apply shows its message
\* box, no move starts while the box is open, and the step that follows its
\* closing empties the plan and the tree and disables apply; the step that
\* starts an analysis empties the tree and disables apply; a move batch starts
\* only from a non-empty plan with its tree shown, and rows appear only when
\* an analysis hands over its plan.
C19_PlanAndTreeDiscarded ==
    [][/\ moving' < moving => at_box' > at_box
       /\ at_box > 0 => moving' <= moving
       /\ at_box' < at_box =>
            (plan' = <<>> /\ node_checked' = <<>> /\ node_kind' = <<>>
             /\ node_payload' = <<>> /\ btn_apply' = "disabled")
       /\ analyzing' > analyzing =>
            (node_checked' = <<>> /\ node_kind' = <<>> /\ node_payload' = <<>>
             /\ btn_apply' = "disabled")
       /\ moving' > moving => (plan # <<>> /\ node_checked # <<>>)
       /\ (node_checked = <<>> /\ node_checked' # <<>>) =>
            (analyzing' < analyzing /\ plan' # <<>>)]_vars

\* the plan and the tree are gone and apply is disabled while a move is still
\* running, no analysis is and no box is open: the box of a batch that ended
\* was closed, or an empty analysis came in, after that move had started from
\* a shown plan
C19_Witness ==
    /\ moving = 1
    /\ analyzing = 0
    /\ at_box = 0
    /\ plan = <<>>
    /\ node_checked = <<>>
    /\ btn_apply = "disabled"

\* ========================================================================
\* The selection tree alone: _populate_tree on a plan, then _toggle_node calls
\* ========================================================================
\* the plans the tree is built from: any of the items, in walk order
TreePlans == {SetToSeq(S) : S \in SUBSET (1..NumItems)}

InitTree ==
    /\ plan \in TreePlans
    /\ node_checked = <<>>
    /\ node_kind = <<>>
    /\ node_payload = <<>>
    /\ node_children = <<>>
    /\ node_parent = <<>>
    /\ btn_apply = "disabled"
    /\ btn_analyze = "normal"
    /\ btn_install = "disabled"
    /\ HAS_PTN = TRUE
    /\ HAS_GUESSIT = TRUE
    /\ sources = <<>>
    /\ dst_var = ""
    /\ analyzing = 0
    /\ moving = 0
    /\ installing = 0
    /\ at_box = 0
    /\ selected_plan = <<>>
    /\ IdleMove
    /\ IdleScan
    /\ toggled = <<>>

\* App._populate_tree(self.plan)
populate_tree ==
    /\ SetTree(PopulateTree(ItemRows(plan)))
    /\ btn_apply' = IF HasAnyLeafSelected(PopulateTree(ItemRows(plan))) THEN "normal" ELSE "disabled"
    /\ toggled' = <<>>
    /\ UNCHANGED <<at_box, plan, btn_analyze, btn_install, HAS_PTN, HAS_GUESSIT, sources,
                   dst_var, analyzing, moving, installing, selected_plan, moveVars,
                   scanVars>>

\* App._toggle_node(nid, new_state), the arguments remembered
toggle_node_call(nid, new_state) ==
    /\ nid \in Nodes(Tree)
    /\ node_checked' = ToggleNode(Tree, nid, new_state)
    /\ btn_apply' = IF HasAnyLeafSelected([Tree EXCEPT !.node_checked = node_checked'])
                    THEN "normal" ELSE "disabled"
    /\ toggled' = [nid |-> nid, new_state |-> new_state]
    /\ UNCHANGED <<at_box, node_kind, node_payload, node_children, node_parent, plan,
                   btn_analyze, btn_install, HAS_PTN, HAS_GUESSIT, sources, dst_var,
                   analyzing, moving, installing, selected_plan, moveVars,
                   scanVars>>

NextTree ==
    \/ populate_tree
    \/ \E nid \in Nodes(Tree), st \in {None, True, False} : toggle_node_call(nid, st)

SpecTree == InitTree /\ [][NextTree]_vars

\* ========================================================================
\* Properties of the selection tree (checked under SpecTree)
\* ========================================================================
RECURSIVE UpFrom(_)
\* the row n and the rows above it, by the parent links
UpFrom(n) == IF n = 0 THEN {} ELSE {n} \cup UpFrom(node_parent[n])

\* the row nid and every row below it
Subtree(nid) == {n \in DOMAIN node_parent : nid \in UpFrom(n)}

\* the rows above nid
StrictAncestors(nid) == UpFrom(nid) \ {nid}

\* the states of the children of row n after the step
ChildStatesAfter(n) == {node_checked'[node_children[n][i]] : i \in DOMAIN node_children[n]}

\* the aggregate of a set of child states
AggregateOf(states) ==
    IF states = {True} THEN True ELSE IF states = {False} THEN False ELSE None

\* C15: _toggle_node(nid, new_state) sets the node and all its descendants to
\* new_state when one is given, else to Unchecked if the node was Checked and
\* to Checked if it was Unchecked or Partial; every ancestor is then the
\* aggregate of its children.
C15_ToggleSetsSubtree ==
    [][toggled' # <<>> =>
          LET nid    == toggled'.nid
              st     == toggled'.new_state
              target == IF st # None THEN st
                        ELSE IF node_checked[nid] = True THEN False ELSE True
          IN  /\ \A n \in Subtree(nid) : node_checked'[n] = target
              /\ \A a \in StrictAncestors(nid) :
                   node_checked'[a] = AggregateOf(ChildStatesAfter(a))]_vars

\* the last call was a click on a show row with two seasons: the show and its
\* episodes are Checked, the category above is Partial because of another show
C15_Witness ==
    /\ toggled # <<>>
    /\ toggled.new_state = None
    /\ node_kind[toggled.nid] = "show"
    /\ Len(node_children[toggled.nid]) = 2
    /\ \A n \in Subtree(toggled.nid) : node_checked[n] = True
    /\ node_checked[node_parent[toggled.nid]] = None

\* the payloads of the File rows below row nid
LeafItemsUnder(nid) == {node_payload[n] : n \in {m \in Subtree(nid) : node_kind[m] = "file"}}

\* a season row with 3 episode rows, all Checked, is being set to Unchecked
SeasonUnchecking ==
    /\ toggled' # <<>>
    /\ node_kind[toggled'.nid] = "season"
    /\ Len(node_children[toggled'.nid]) = 3
    /\ \A i \in DOMAIN node_children[toggled'.nid] :
         node_checked[node_children[toggled'.nid][i]] = True
    /\ toggled'.new_state \in {None, False}
    /\ node_checked' # node_checked

\* the sibling rows of row n
Siblings(n) ==
    {node_children[node_parent[n]][i] : i \in DOMAIN node_children[node_parent[n]]} \ {n}

\* C16 as stated: the episodes become Unchecked and leave the selection; the
\* show and the category become Partial if a sibling season is Checked and
\* Unchecked if none is.
C16_AncestorsBySiblingSeasons ==
    [][SeasonUnchecking =>
          LET nid  == toggled'.nid
              show == node_parent[nid]
              cat  == node_parent[show]
              anc  == IF \E s \in Siblings(nid) : node_checked[s] = True
                      THEN None ELSE False
          IN  /\ \A n \in Subtree(nid) : node_checked'[n] = False
              /\ node_checked'[show] = anc
              /\ node_checked'[cat] = anc
              /\ Range(GetSelectedItems([Tree EXCEPT !.node_checked = node_checked']))
                     \cap LeafItemsUnder(nid) = {}]_vars

\* C16, amended: the episodes become Unchecked and leave the selection; the
\* show becomes Unchecked if every sibling season is Unchecked and Partial
\* otherwise (a sibling Checked or Partial); the category becomes Unchecked if
\* the show did and every other show of the category is Unchecked, and
\* Partial otherwise.
C16_AncestorsByAllSiblings ==
    [][SeasonUnchecking =>
          LET nid  == toggled'.nid
              show == node_parent[nid]
              cat  == node_parent[show]
              show_st == IF \A s \in Siblings(nid) : node_checked[s] = False
                         THEN False ELSE None
              cat_st  == IF show_st = False
                            /\ \A s \in Siblings(show) : node_checked[s] = False
                         THEN False ELSE None
          IN  /\ \A n \in Subtree(nid) : node_checked'[n] = False
              /\ node_checked'[show] = show_st
              /\ node_checked'[cat] = cat_st
              /\ Range(GetSelectedItems([Tree EXCEPT !.node_checked = node_checked']))
                     \cap LeafItemsUnder(nid) = {}]_vars

\* the last call set a season of 3 episodes to Unchecked: its episodes are
\* Unchecked and not selected, a sibling season is still Checked, the show
\* and the category are Partial
C16_Witness ==
    /\ toggled # <<>>
    /\ toggled.new_state = False
    /\ node_kind[toggled.nid] = "season"
    /\ Len(node_children[toggled.nid]) = 3
    /\ \A n \in Subtree(toggled.nid) : node_checked[n] = False
    /\ \E s \in Siblings(toggled.nid) : node_checked[s] = True
    /\ node_checked[node_parent[toggled.nid]] = None
    /\ node_checked[node_parent[node_parent[toggled.nid]]] = None
    /\ Range(GetSelectedItems(Tree)) \cap LeafItemsUnder(toggled.nid) = {}
    /\ GetSelectedItems(Tree) # <<>>

\* the File row bound to item id after the step, 0 if there is not exactly one
LeafOfAfter(id) ==
    LET rows == {n \in DOMAIN node_kind' : node_kind'[n] = "file" /\ node_payload'[n] = id}
    IN  IF Cardinality(rows) = 1 THEN CHOOSE n \in rows : TRUE ELSE 0

\* C17: _populate_tree(plan) leaves one File row per planned item and no
\* other; a movie's row hangs under a root row of kind movies; a series
\* item's row hangs under a season row under a show row under a root row of
\* kind series, two items sharing the season row exactly when they have the
\* same show and season and the show row exactly when they have the same
\* show; every row is Checked and the selected items are the planned items.
C17_BuildGroupsAndChecksAll ==
    [][toggled' = <<>> =>
          LET t == [node_checked |-> node_checked', node_kind |-> node_kind',
                    node_payload |-> node_payload', node_children |-> node_children',
                    node_parent |-> node_parent']
              par(n) == node_parent'[n]
          IN  /\ \A id \in Range(plan') : LeafOfAfter(id) # 0
              /\ \A n \in Nodes(t) :
                   node_kind'[n] = "file" => node_payload'[n] \in Range(plan')
              /\ \A id \in Range(plan') :
                   LET n == LeafOfAfter(id)
                   IN  IF IsMovie(ItemRow(id))
                       THEN node_kind'[par(n)] = "movies" /\ par(par(n)) = 0
                       ELSE /\ node_kind'[par(n)] = "season"
                            /\ node_kind'[par(par(n))] = "show"
                            /\ node_kind'[par(par(par(n)))] = "series"
                            /\ par(par(par(par(n)))) = 0
              /\ \A a, b \in {id \in Range(plan') : IsSeries(ItemRow(id))} :
                   /\ (par(par(LeafOfAfter(a))) = par(par(LeafOfAfter(b))))
                        <=> (ItemOf(a).show_title = ItemOf(b).show_title)
                   /\ (par(LeafOfAfter(a)) = par(LeafOfAfter(b)))
                        <=> (ItemOf(a).show_title = ItemOf(b).show_title
                             /\ ItemOf(a).season = ItemOf(b).season)
              /\ \A n \in Nodes(t) : node_checked'[n] = True
              /\ Range(GetSelectedItems(t)) = Range(plan')
              /\ Len(GetSelectedItems(t)) = Len(plan')]_vars

\* the tree was just built from a plan with a movie, two shows and two seasons
\* of one show
C17_Witness ==
    /\ toggled = <<>>
    /\ Len(plan) = NumItems
    /\ Cardinality(FileNodes) = NumItems
    /\ Cardinality({n \in NonFileNodes : node_kind[n] = "show"}) = 2
    /\ Cardinality({n \in NonFileNodes : node_kind[n] = "season"}) = 3
    /\ \E n \in NonFileNodes : node_kind[n] = "movies"

\* C18: a File row is Checked or Unchecked, never Partial.
C18_FileRowsNeverPartial ==
    \A n \in FileNodes : node_checked[n] \in {True, False}

\* after a click on a Partial season row, then on one of its episodes: the
\* episode is Unchecked under a Partial season
C18_Witness ==
    /\ toggled # <<>>
    /\ toggled.new_state = None
    /\ node_kind[toggled.nid] = "file"
    /\ node_checked[toggled.nid] = False
    /\ node_checked[node_parent[toggled.nid]] = None

\* the rows a toggle of nid can reach: nid, the rows below it, the rows above it
Reached(nid) == Subtree(nid) \cup StrictAncestors(nid)

\* C33: _toggle_node(nid) leaves the state of every row that is not nid, not
\* below nid and not above nid as it was.
C33_ToggleLeavesOthers ==
    [][toggled' # <<>> =>
          \A n \in DOMAIN node_checked \ Reached(toggled'.nid) :
              node_checked'[n] = node_checked[n]]_vars

\* a row was just set to Unchecked while, out of its reach, one row is
\* Checked, one Unchecked and one Partial
C33_Witness ==
    /\ toggled # <<>>
    /\ node_checked[toggled.nid] = False
    /\ \A st \in {True, False, None} :
         \E n \in DOMAIN node_checked \ Reached(toggled.nid) : node_checked[n] = st

\* ========================================================================
\* The move executor and the cleanup sweep over a small filesystem
\* ========================================================================
\* I/O failures (makedirs, listdir, rename, open, read or write, unlink,
\* rmtree) injected in one run
MaxFaults == 2
\* copy_with_progress reads chunk_size bytes at a time (1 MiB, scaled down)
chunk_size == 2

VIDEO_EXTS == {".avi", ".mkv", ".mp4", ".mov", ".wmv", ".flv"}
COMPANION_EXTS == {".srt", ".sub", ".idx", ".nfo", ".jpg", ".jpeg", ".png", ".txt"}

\* str.lower() on the names of the model's filesystem
Lower(name) ==
    CASE name = "SRC" -> "src"
      [] name = ".MKV" -> ".mkv"
      [] name = "P" -> "p"
      [] OTHER -> name

\* len() of a path component
NameLen(name) ==
    CASE name \in {"src", "SRC", "dst"} -> 3
      [] OTHER -> 1

\* directories are sequences of components below "/"; a file is a directory,
\* a stem and an extension (os.path.dirname / splitext(basename) read them back)
File(dir, stem, ext) == [dir |-> dir, stem |-> stem, ext |-> ext]

SRC == <<"src">>
SRC_A == <<"src", "a">>
SRC_AB == <<"src", "a", "b">>
UPPER == <<"SRC">>
UPPER_A == <<"SRC", "a">>
DST == <<"dst">>
DST_P == <<"dst", "P">>

\* content ids of the files present before the batch
FX == "x.mkv"
FXSrt == "x.srt"
FXNfo == "x.nfo"
FXAvi == "x.avi"
FY == "y.mkv"
FZ == "z.mkv"
FSample == "sample.MKV"
FNested == "w.mkv"

\* where each file lies before the batch
PathOf(id) ==
    CASE id = FX -> File(SRC_A, "x", ".mkv")
      [] id = FXSrt -> File(SRC_A, "x", ".srt")
      [] id = FXNfo -> File(SRC_A, "x", ".nfo")
      [] id = FXAvi -> File(SRC_A, "x", ".avi")
      [] id = FY -> File(SRC, "y", ".mkv")
      [] id = FZ -> File(UPPER_A, "z", ".mkv")
      [] id = FSample -> File(SRC_A, "sample", ".MKV")
      [] id = FNested -> File(SRC_AB, "w", ".mkv")

\* bytes of each file
SizeOf(id) ==
    CASE id = FX -> 2 * chunk_size + 1
      [] id = FXSrt -> 1
      [] id = FY -> chunk_size
      [] id = FZ -> 1
      [] OTHER -> 1

Files == {FX, FXSrt, FXNfo, FXAvi, FY, FZ, FSample, FNested}
OptionalFiles == {FXAvi, FSample, FNested}

\* the MediaItem fields the executor reads
Item(id, stem) ==
    [src_path |-> PathOf(id), dst_dir |-> DST_P, dst_path |-> File(DST_P, stem, ".mkv")]

\* the plan's items, in plan order
AllItems == <<Item(FX, "x"), Item(FY, "y"), Item(FZ, "z")>>

\* a plan whose two descriptors have one destination path: build_media_item
\* names the destination after the title it reads, not after the source
SameDestinationPlan == <<Item(FX, "x"), Item(FY, "x")>>

\* a plan with two videos of one folder that have the same stem
SameStemPlan == <<Item(FX, "x"), Item(FXAvi, "v")>>

\* the plans a batch is taken from: the checked items of AllItems in plan
\* order, and the two plans above
Batches ==
    {[i \in 1..Cardinality(S) |-> AllItems[SetToSeq(S)[i]]] :
        S \in (SUBSET (DOMAIN AllItems)) \ {{}}}
        \cup {SameDestinationPlan, SameStemPlan}

\* every path the run can touch
FilePaths ==
    {PathOf(id) : id \in Files}
        \cup UNION {{b[i].dst_path : i \in DOMAIN b} : b \in Batches}
        \cup {File(DST_P, n, e) : n \in {"x", "v"}, e \in {".srt", ".nfo"}}

NoFile == [id |-> "", len |-> 0]

Exists(f, path) == f[path].id # ""

\* file_size: os.path.getsize, 0 on OSError
FileSize(f, path) == IF Exists(f, path) THEN f[path].len ELSE 0

\* all prefixes of a directory path, the path included
Ancestors(d) == {SubSeq(d, 1, k) : k \in 1..Len(d)}

\* ensure_dir: os.makedirs(path, exist_ok=True) returning
EnsureDir(ds, d) == ds \cup Ancestors(d)

\* ensure_dir raising: the directories as os.makedirs can leave them, with
\* the ancestors it had made before it failed
EnsureDirRaised(ds, d) ==
    {ds \cup {SubSeq(d, 1, k) : k \in 1..j} : j \in 0..(Len(d) - 1)}

IsPrefix(r, c) == Len(r) <= Len(c) /\ SubSeq(c, 1, Len(r)) = r

\* _path_norm: os.path.abspath(p).rstrip("\\/").lower()
PathNorm(d) == [i \in DOMAIN d |-> Lower(d[i])]

\* len(_path_norm(p)): a separator and the component, for each component
PathNormLen(d) ==
    LET n == PathNorm(d)
        RECURSIVE Sum(_)
        Sum(k) == IF k = 0 THEN 0 ELSE 1 + NameLen(n[k]) + Sum(k - 1)
    IN  Sum(Len(n))

\* _is_within: child_n == root_n or child_n.startswith(root_n + os.sep)
IsWithin(child, root) ==
    LET child_n == PathNorm(child)
        root_n  == PathNorm(root)
    IN  child_n = root_n
        \/ (Len(child_n) > Len(root_n) /\ SubSeq(child_n, 1, Len(root_n)) = root_n)

\* a variant that looks for videos in the directory itself only
DirHasVideosShallow(f, ds, path) ==
    \E fp \in FilePaths : Exists(f, fp) /\ fp.dir = path /\ Lower(fp.ext) \in VIDEO_EXTS

RECURSIVE DirHasVideos(_, _, _)
\* _dir_has_videos: os.walk(path), any file whose lower-cased name ends in a video extension
DirHasVideos(f, ds, path) ==
    \/ \E fp \in FilePaths : Exists(f, fp) /\ fp.dir = path /\ Lower(fp.ext) \in VIDEO_EXTS
    \/ \E sub \in ds : Len(sub) = Len(path) + 1 /\ IsPrefix(path, sub)
                       /\ DirHasVideos(f, ds, sub)

\* list_companion_files / the listing loop of move_video_and_companions:
\* files of the source directory with exactly the stem and a companion extension
ListCompanionFiles(f, src_video_path) ==
    {fp \in FilePaths : /\ Exists(f, fp)
                        /\ fp.dir = src_video_path.dir
                        /\ fp.stem = src_video_path.stem
                        /\ Lower(fp.ext) \in COMPANION_EXTS}

RECURSIVE SumSizes(_, _)
SumSizes(f, S) ==
    IF S = {} THEN 0
    ELSE LET fp == CHOOSE x \in S : TRUE
         IN  FileSize(f, fp) + SumSizes(f, S \ {fp})

RECURSIVE ComputeTotalBytes(_, _)
\* compute_total_bytes: each item's file and its companions
ComputeTotalBytes(f, p) ==
    IF p = <<>> THEN 0
    ELSE FileSize(f, Head(p).src_path)
         + SumSizes(f, ListCompanionFiles(f, Head(p).src_path))
         + ComputeTotalBytes(f, Tail(p))

\* the orders in which os.listdir / a set can yield the elements of S
Orders(S) == {q \in [1..Cardinality(S) -> S] : \A x \in S : \E i \in DOMAIN q : q[i] = x}

\* what the run remembers of each source file: the last move_path call on it
\* (how its rename, copy and unlink ended, the bytes it reported) and the
\* place in the batch of the item the call was made for; rename is "nodir"
\* for an item whose ensure_dir(item.dst_dir) raised, so that move_path was
\* not called
NoTrace ==
    [rename |-> "none", copy |-> "none", unlink |-> "none", reported |-> 0, item |-> 0]

\* the record of a move_path call for the item in turn
Call(rename, copy, reported) ==
    [rename |-> rename, copy |-> copy, unlink |-> "none", reported |-> reported,
     item |-> idx]

SourcePaths == {PathOf(id) : id \in Files}

\* the window's variables while the executor's specification runs
IdleApp ==
    /\ node_checked = <<>>
    /\ node_kind = <<>>
    /\ node_payload = <<>>
    /\ node_children = <<>>
    /\ node_parent = <<>>
    /\ plan = <<>>
    /\ HAS_PTN = FALSE
    /\ HAS_GUESSIT = FALSE
    /\ btn_analyze = "disabled"
    /\ btn_apply = "disabled"
    /\ btn_install = "disabled"
    /\ sources = <<>>
    /\ dst_var = ""
    /\ analyzing = 0
    /\ moving = 0
    /\ installing = 0
    /\ at_box = 0
    /\ selected_plan = <<>>

\* a call perform_moves_bytes(batch, total_bytes, cb, source_roots): the files
\* of the batch exist, the destination root exists and is empty
InitMove ==
    /\ \E present \in SUBSET OptionalFiles :
         /\ fs = [fp \in FilePaths |->
                    IF \E id \in (Files \ OptionalFiles) \cup present : PathOf(id) = fp
                    THEN LET id == CHOOSE i \in Files : PathOf(i) = fp
                         IN  [id |-> id, len |-> SizeOf(id)]
                    ELSE NoFile]
         /\ dirs = {SRC, SRC_A, UPPER, UPPER_A, DST}
                     \cup (IF FNested \in present THEN {SRC_AB} ELSE {})
    /\ batch \in Batches
    /\ \A i \in DOMAIN batch : Exists(fs, batch[i].src_path)
    /\ source_roots \in {<<>>, <<SRC>>, <<UPPER>>, <<SRC, UPPER>>}
    /\ cross_volume \in BOOLEAN
    /\ pc = "item"
    /\ idx = 1
    /\ queue = <<>>
    /\ copying = <<>>
    /\ done = 0
    /\ total_bytes = ComputeTotalBytes(fs, batch)
    /\ errors = <<>>
    /\ errs = <<>>
    /\ cands = {}
    /\ faults = 0
    /\ trace = [fp \in SourcePaths |-> NoTrace]
    /\ swept = <<>>

\* ---- move_path --------------------------------------------------------
\* how lines 451-455 can leave an existing destination: os.remove(dst)
\* removes it, or raises and is passed over (TRUE: the file is kept)
RemoveOutcomes(f, dst, used) ==
    {FALSE} \cup (IF Exists(f, dst) /\ used < MaxFaults THEN {TRUE} ELSE {})

\* how ensure_dir and os.replace(src, dst) of lines 458-459 can end: a missing
\* source and a destination on another volume always fail; otherwise they
\* succeed, or one of them fails with another OSError
RenameOutcomes(f, src, used) ==
    IF ~Exists(f, src) THEN {"other"}
    ELSE IF cross_volume THEN {"EXDEV"}
    ELSE {"ok"} \cup (IF used < MaxFaults THEN {"other"} ELSE {})

\* how the head of copy_with_progress can end (lines 434-435): ensure_dir and
\* the two open() return, or one of them raises; open(src) raises for a
\* missing source
OpenOutcomes(f, src, used) ==
    IF ~Exists(f, src) THEN {"raised"}
    ELSE {"opened"} \cup (IF used < MaxFaults THEN {"raised"} ELSE {})

\* a variant that copies only after a cross-volume failure
FallsBackToCopyOnlyExdev(errno) == errno = "EXDEV"

\* the except clause of move_path (lines 463-465): every OSError goes on to the copy
FallsBackToCopy(errno) == errno \in {"EXDEV", "other"}

\* a variant that leaves the source in place
ReplaceKeepsSource(f, src, dst) == [f EXCEPT ![dst] = f[src]]

\* os.replace succeeding: the file is at dst and no longer at src
Replace(f, src, dst) == [f EXCEPT ![dst] = f[src], ![src] = NoFile]

\* a variant that reports the size before knowing whether the rename worked
RenameReportAlways(outcome, src_sz) == src_sz

\* add_bytes(src_sz) runs only after os.replace returned (line 461)
RenameReport(outcome, src_sz) == IF outcome = "ok" THEN src_sz ELSE 0

\* len(buf) for buf = fsrc.read(chunk_size) at offset off of a file of size bytes
ReadLen(size, off) == IF size - off < chunk_size THEN size - off ELSE chunk_size

\* ---- the handlers an exception of move_path meets --------------------
\* a variant without the loop's try/except: the exception leaves the batch
OnItemExceptionPropagates == "propagate"

\* perform_moves_bytes, lines 522-523: the error is appended and the loop goes on
OnItemException == "record"

\* move_video_and_companions, lines 495-496: except Exception: pass
OnCompanionException == "swallow"

\* a variant without the try/except inside the sweep's loop
OnCleanupExceptionPropagates == "propagate"

\* _cleanup_dirs_after_moves, lines 220-221: the error is appended to errs and
\* the loop goes on
OnCleanupException == "record"

\* a variant that sweeps the directory of the first item only
CandidatesOfFirst(p) == {p[1].src_path.dir}

\* {os.path.dirname(it.src_path) for it in plan}
Candidates(p) == {p[i].src_path.dir : i \in DOMAIN p}

\* a variant of the loop that passes over the item after the current one
AdvanceSkipsNext(errors2) ==
    /\ errors' = errors2
    /\ queue' = <<>>
    /\ idx' = IF idx + 1 < Len(batch) THEN idx + 2 ELSE Len(batch) + 1
    /\ IF idx + 1 < Len(batch)
       THEN pc' = "item" /\ cands' = {}
       ELSE IF source_roots # <<>>
            THEN pc' = "cleanup" /\ cands' = Candidates(batch)
            ELSE pc' = "done" /\ cands' = {}

\* after the current item: the next item, or the sweep, or the return
Advance(errors2) ==
    /\ errors' = errors2
    /\ queue' = <<>>
    /\ idx' = idx + 1
    /\ IF idx < Len(batch)
       THEN pc' = "item" /\ cands' = {}
       ELSE IF source_roots # <<>>
            THEN pc' = "cleanup" /\ cands' = Candidates(batch)
            ELSE pc' = "done" /\ cands' = {}

\* where control goes when move_path returned ("ok") or raised ("raised") for
\* the item's own file (comp = FALSE) or one of its companions
Control(result, comp) ==
    IF ~comp
    THEN IF result = "ok"
         THEN /\ pc' = "list"
              /\ queue' = <<>>
              /\ UNCHANGED <<idx, errors, cands>>
         ELSE IF OnItemException = "record"
              THEN Advance(Append(errors, [kind |-> "move", item |-> idx]))
              ELSE pc' = "raised" /\ UNCHANGED <<idx, errors, cands, queue>>
    ELSE IF result = "ok"
         THEN IF Tail(queue) = <<>> THEN Advance(errors)
              ELSE /\ queue' = Tail(queue)
                   /\ pc' = "companions"
                   /\ UNCHANGED <<idx, errors, cands>>
         ELSE IF OnCompanionException = "swallow"
              THEN Advance(errors)
              ELSE Advance(Append(errors, [kind |-> "move", item |-> idx]))

\* move_path(src, dst, add_bytes) up to the rename or the opening of the copy;
\* ds are the directories as the caller left them
MovePath(src, dst, comp, ds) ==
    IF src = dst
    THEN /\ UNCHANGED <<fs, done, faults, copying>>
         /\ dirs' = ds
         /\ trace' = [trace EXCEPT ![src] = Call("same", "none", 0)]
         /\ Control("ok", comp)
    ELSE \E kept \in RemoveOutcomes(fs, dst, faults) :
           LET used1  == faults + (IF kept THEN 1 ELSE 0)
               f1     == IF kept THEN fs ELSE [fs EXCEPT ![dst] = NoFile]
               src_sz == FileSize(f1, src)
           IN  \E outcome \in RenameOutcomes(f1, src, used1) :
                 LET used2 == used1 + (IF outcome = "other" /\ Exists(f1, src)
                                       THEN 1 ELSE 0)
                 IN  /\ done' = done + RenameReport(outcome, src_sz)
                     /\ IF outcome = "ok"
                        THEN /\ fs' = Replace(f1, src, dst)
                             /\ dirs' = EnsureDir(ds, dst.dir)
                             /\ faults' = used2
                             /\ trace' = [trace EXCEPT ![src] =
                                              Call("ok", "none",
                                                   RenameReport(outcome, src_sz))]
                             /\ copying' = <<>>
                             /\ Control("ok", comp)
                        ELSE IF ~FallsBackToCopy(outcome)
                        THEN \* the OSError leaves move_path
                             /\ fs' = f1
                             /\ dirs' = EnsureDir(ds, dst.dir)
                             /\ faults' = used2
                             /\ trace' = [trace EXCEPT ![src] =
                                              Call(outcome, "none",
                                                   RenameReport(outcome, src_sz))]
                             /\ copying' = <<>>
                             /\ Control("raised", comp)
                        ELSE \E opening \in OpenOutcomes(f1, src, used2) :
                               IF opening = "opened"
                               THEN \* open(dst, "wb") leaves an empty file
                                    /\ fs' = [f1 EXCEPT ![dst] =
                                                 [id |-> f1[src].id, len |-> 0]]
                                    /\ dirs' = EnsureDir(ds, dst.dir)
                                    /\ faults' = used2
                                    /\ trace' = [trace EXCEPT ![src] =
                                                     Call(outcome, "started",
                                                          RenameReport(outcome, src_sz))]
                                    /\ copying' = [src |-> src, dst |-> dst, off |-> 0,
                                                   comp |-> comp]
                                    /\ pc' = "copy"
                                    /\ UNCHANGED <<idx, queue, errors, cands>>
                               ELSE \* copy_with_progress raised before it wrote
                                    /\ fs' = f1
                                    /\ dirs' \in {EnsureDir(ds, dst.dir)}
                                                 \cup (IF Exists(f1, src)
                                                       THEN EnsureDirRaised(ds, dst.dir)
                                                       ELSE {})
                                    /\ faults' = used2 + (IF Exists(f1, src)
                                                          THEN 1 ELSE 0)
                                    /\ trace' = [trace EXCEPT ![src] =
                                                     Call(outcome, "fail",
                                                          RenameReport(outcome, src_sz))]
                                    /\ copying' = <<>>
                                    /\ Control("raised", comp)

\* one turn of the loop of perform_moves_bytes: ensure_dir(item.dst_dir), then
\* move_video_and_companions up to the end of the item's own move_path call
\* or the start of its copy
move_item ==
    /\ pc = "item"
    /\ \/ MovePath(batch[idx].src_path, batch[idx].dst_path, FALSE,
                   EnsureDir(dirs, batch[idx].dst_dir))
       \/ \* ensure_dir raised: move_path is not called for the item
          /\ faults < MaxFaults
          /\ faults' = faults + 1
          /\ dirs' \in EnsureDirRaised(dirs, batch[idx].dst_dir)
          /\ trace' = [trace EXCEPT ![batch[idx].src_path] = Call("nodir", "none", 0)]
          /\ Control("raised", FALSE)
          /\ UNCHANGED <<fs, done, copying>>
    /\ UNCHANGED <<batch, source_roots, cross_volume, total_bytes, errs, swept>>
    /\ UNCHANGED <<appVars, sideVars>>

\* move_video_and_companions after the item's own file: os.listdir(src_dir)
\* and the entries that are companion files, or os.listdir raising, which
\* the try around the loop passes over
list_companions ==
    /\ pc = "list"
    /\ \/ /\ LET comps == ListCompanionFiles(fs, batch[idx].src_path)
                IN  IF comps = {} THEN Advance(errors)
                    ELSE /\ queue' \in Orders(comps)
                         /\ pc' = "companions"
                         /\ UNCHANGED <<idx, errors, cands>>
          /\ UNCHANGED faults
       \/ /\ faults < MaxFaults
          /\ faults' = faults + 1
          /\ IF OnCompanionException = "swallow"
             THEN Advance(errors)
             ELSE Advance(Append(errors, [kind |-> "move", item |-> idx]))
    /\ UNCHANGED <<fs, dirs, batch, source_roots, cross_volume, copying, done,
                   total_bytes, errs, trace, swept>>
    /\ UNCHANGED <<appVars, sideVars>>

\* one turn of the companion loop of move_video_and_companions
move_companion ==
    /\ pc = "companions"
    /\ LET sp == Head(queue)
           \* sanitize_filename(dest_stem + ext) leaves the model's names as they are
           dp == File(batch[idx].dst_path.dir, batch[idx].dst_path.stem, sp.ext)
       IN  MovePath(sp, dp, TRUE, dirs)
    /\ UNCHANGED <<batch, source_roots, cross_volume, total_bytes, errs, swept>>
    /\ UNCHANGED <<appVars, sideVars>>

\* copy_with_progress: one chunk read, written and reported
copy_chunk ==
    /\ pc = "copy"
    /\ LET n == ReadLen(FileSize(fs, copying.src), copying.off)
       IN  /\ n > 0
           /\ fs' = [fs EXCEPT ![copying.dst].len = @ + n]
           /\ done' = done + n
           /\ trace' = [trace EXCEPT ![copying.src].reported = @ + n]
           /\ copying' = [copying EXCEPT !.off = @ + n]
    /\ UNCHANGED <<dirs, batch, source_roots, cross_volume, pc, idx, queue,
                   total_bytes, errors, errs, cands, faults, swept>>
    /\ UNCHANGED <<appVars, sideVars>>

\* copy_with_progress reading the end of the file, then move_path's
\* os.remove(src), whose failure is swallowed
copy_end ==
    /\ pc = "copy"
    /\ ReadLen(FileSize(fs, copying.src), copying.off) = 0
    /\ \E removed \in {TRUE} \cup (IF faults < MaxFaults THEN {FALSE} ELSE {}) :
         /\ fs' = IF removed THEN [fs EXCEPT ![copying.src] = NoFile] ELSE fs
         /\ faults' = IF removed THEN faults ELSE faults + 1
         /\ trace' = [trace EXCEPT ![copying.src].copy = "ok",
                                   ![copying.src].unlink = IF removed THEN "ok" ELSE "fail"]
    /\ copying' = <<>>
    /\ Control("ok", copying.comp)
    /\ UNCHANGED <<dirs, batch, source_roots, cross_volume, done, total_bytes, errs,
                   swept>>
    /\ UNCHANGED <<appVars, sideVars>>

\* a read or write of copy_with_progress raising: the destination stays as
\* far as it was written
copy_fail ==
    /\ pc = "copy"
    /\ faults < MaxFaults
    /\ faults' = faults + 1
    /\ trace' = [trace EXCEPT ![copying.src].copy = "fail"]
    /\ copying' = <<>>
    /\ Control("raised", copying.comp)
    /\ UNCHANGED <<fs, dirs, batch, source_roots, cross_volume, done, total_bytes,
                   errs, swept>>
    /\ UNCHANGED <<appVars, sideVars>>

\* ---- _cleanup_dirs_after_moves -----------------------------------------
\* the files lying in d or below it
FilesUnder(f, d) == {fp \in FilePaths : Exists(f, fp) /\ IsPrefix(d, fp.dir)}

\* the directories lying below d
DirsBelow(ds, d) == {x \in ds : x # d /\ IsPrefix(d, x)}

\* any(_is_within(d, rt) for rt in roots)
InAnyRoot(d, roots) == \E i \in DOMAIN roots : IsWithin(d, roots[i])

\* the end of one turn of the sweep's loop: the next candidate, or the return
\* of the sweep, whose list perform_moves_bytes appends to its own
SweepNext ==
    IF cands' = {}
    THEN pc' = "done" /\ errors' = errors \o errs'
    ELSE UNCHANGED <<pc, errors>>

\* one turn of the loop of _cleanup_dirs_after_moves: the longest candidate
\* not yet visited
cleanup_dir ==
    /\ pc = "cleanup"
    /\ \E d \in cands :
         /\ \A e \in cands : PathNormLen(e) <= PathNormLen(d)
         /\ cands' = cands \ {d}
         /\ IF ~InAnyRoot(d, source_roots) \/ d \notin dirs \/ DirHasVideos(fs, dirs, d)
            THEN /\ UNCHANGED <<fs, dirs, errs, faults>>
                 /\ swept' = Append(swept, [dir |-> d, outcome |-> "kept"])
                 /\ SweepNext
            ELSE \* shutil.rmtree(d, ignore_errors=False)
                 \/ /\ fs' = [fp \in FilePaths |->
                                IF fp \in FilesUnder(fs, d) THEN NoFile ELSE fs[fp]]
                    /\ dirs' = {x \in dirs : ~IsPrefix(d, x)}
                    /\ swept' = Append(swept, [dir |-> d, outcome |-> "removed"])
                    /\ UNCHANGED <<errs, faults>>
                    /\ SweepNext
                 \/ /\ faults < MaxFaults
                    /\ faults' = faults + 1
                    \* it raised after deleting some of the files and some of
                    \* the directories below d, each of these emptied first
                    /\ \E gone \in SUBSET FilesUnder(fs, d),
                          lost \in SUBSET DirsBelow(dirs, d) :
                         /\ \A x \in lost :
                              /\ DirsBelow(dirs, x) \subseteq lost
                              /\ FilesUnder(fs, x) \subseteq gone
                         /\ fs' = [fp \in FilePaths |->
                                     IF fp \in gone THEN NoFile ELSE fs[fp]]
                         /\ dirs' = dirs \ lost
                    /\ swept' = Append(swept, [dir |-> d, outcome |-> "failed"])
                    /\ IF OnCleanupException = "record"
                       THEN /\ errs' = Append(errs, [kind |-> "cleanup", dir |-> d])
                            /\ SweepNext
                       ELSE \* the exception leaves the sweep: lines 529-530
                            /\ errs' = errs
                            /\ pc' = "done"
                            /\ errors' = Append(errors, [kind |-> "sweep", dir |-> d])
    /\ UNCHANGED <<batch, source_roots, cross_volume, idx, queue, copying, done,
                   total_bytes, trace>>
    /\ UNCHANGED <<appVars, sideVars>>

InitExec ==
    /\ IdleApp
    /\ InitMove
    /\ IdleScan
    /\ toggled = <<>>

NextMove ==
    \/ move_item
    \/ list_companions
    \/ move_companion
    \/ copy_chunk
    \/ copy_end
    \/ copy_fail
    \/ cleanup_dir

SpecMove == InitExec /\ [][NextMove]_vars

\* ========================================================================
\* Properties of the executor and the sweep (checked under SpecMove)
\* ========================================================================
\* an error of the returned list names item i of the batch
HasError(i) == \E k \in DOMAIN errors : errors[k].kind = "move" /\ errors[k].item = i

\* the move_path call for the file raised
MoveRaised(fp) ==
    \/ trace[fp].copy = "fail"
    \/ (trace[fp].rename \in {"EXDEV", "other"} /\ trace[fp].copy = "none")

\* the file reached its destination
Moved(fp) == trace[fp].rename = "ok" \/ trace[fp].copy = "ok"

\* the companion files of item i as the batch found them
CompanionsOf(i) ==
    {fp \in SourcePaths : /\ fp.dir = batch[i].src_path.dir
                          /\ fp.stem = batch[i].src_path.stem
                          /\ Lower(fp.ext) \in COMPANION_EXTS}

\* the bytes the file had before the batch
OriginalSize(fp) == SizeOf(CHOOSE id \in Files : PathOf(id) = fp)

\* C3: every item of the batch is attempted whatever happened to earlier
\* items, a failed move of an item, or a destination directory that could
\* not be made for it, is in the returned error list, and the batch never
\* ends by raising.
C3_BatchGoesOn ==
    /\ pc # "raised"
    /\ (pc \in {"cleanup", "done"}) => idx = Len(batch) + 1
    /\ \A i \in DOMAIN batch :
         i < idx => /\ trace[batch[i].src_path].rename # "none"
                    /\ MoveRaised(batch[i].src_path) => HasError(i)
                    /\ trace[batch[i].src_path].rename = "nodir" => HasError(i)

\* the batch returned with an error for one item and a later item moved
C3_Witness ==
    /\ pc = "done"
    /\ \E i, j \in DOMAIN batch :
         /\ i < j
         /\ MoveRaised(batch[i].src_path)
         /\ HasError(i)
         /\ Moved(batch[j].src_path)
         /\ ~HasError(j)

\* C4 as stated: the copy is taken only after a cross-volume failure; any
\* other rename failure is recorded as an error and nothing is copied.
C4_CopyOnlyAcrossVolumes ==
    \A fp \in DOMAIN trace :
        /\ trace[fp].copy # "none" => trace[fp].rename = "EXDEV"
        /\ trace[fp].rename = "other" => trace[fp].copy = "none"

\* C4, amended: the copy is taken after every rename that failed with an OS
\* error, cross-volume or not; a failed rename alone records no error: an
\* item's error is recorded exactly when its destination directory could not
\* be made or the copy of its file failed.
C4_CopyAfterAnyRenameFailure ==
    /\ \A fp \in DOMAIN trace :
         trace[fp].copy # "none" <=> trace[fp].rename \in {"EXDEV", "other"}
    /\ \A i \in DOMAIN batch :
         i < idx => (HasError(i) <=> \/ trace[batch[i].src_path].rename = "nodir"
                                    \/ trace[batch[i].src_path].copy = "fail")

\* a rename failed for a reason other than the volume, the copy went
\* through and no error was recorded
C4_Witness ==
    \E i \in DOMAIN batch :
        /\ i < idx
        /\ trace[batch[i].src_path].rename = "other"
        /\ trace[batch[i].src_path].copy = "ok"
        /\ ~HasError(i)

\* C5: a companion file that failed to relocate is in the returned error list.
C5_CompanionFailureCollected ==
    \A i \in DOMAIN batch :
        i < idx => \A fp \in CompanionsOf(i) : MoveRaised(fp) => HasError(i)

\* C6: the bytes reported for a file moved through the copy fallback sum to
\* exactly its size, and the running total never decreases.
C6_BytesReportedOnce ==
    [][/\ done' >= done
       /\ \A fp \in DOMAIN trace' :
            trace'[fp].copy = "ok" => trace'[fp].reported = OriginalSize(fp)]_vars

\* a file of more than two chunks went through the copy fallback
C6_Witness ==
    \E fp \in DOMAIN trace :
        /\ trace[fp].copy = "ok"
        /\ OriginalSize(fp) > 2 * chunk_size
        /\ trace[fp].reported = OriginalSize(fp)
        /\ done >= OriginalSize(fp)

\* the turn of item i ends with this step and no error names the item
EndsWithoutError(i) ==
    /\ idx = i
    /\ idx' = i + 1
    /\ ~\E k \in DOMAIN errors' : errors'[k].kind = "move" /\ errors'[k].item = i

C9_RemovedOnlyUnderRoots ==
    [][\A d \in dirs \ dirs' :
          \E k \in DOMAIN source_roots : IsPrefix(source_roots[k], d)]_vars

\* C10: the sweep removes no directory that holds, at any depth, a file with
\* a video extension, a sample the plan ignored included.
C10_NoVideoDirRemoved ==
    [][\A d \in dirs \ dirs' :
          ~\E fp \in FilePaths : /\ Exists(fs, fp)
                                 /\ IsPrefix(d, fp.dir)
                                 /\ Lower(fp.ext) \in VIDEO_EXTS]_vars

\* the sweep is over: it removed a directory, and it left alone the directory
\* of a moved item whose only video is now the sample file
C10_Witness ==
    /\ pc = "done"
    /\ SRC_A \in Candidates(batch)
    /\ InAnyRoot(SRC_A, source_roots)
    /\ ~Exists(fs, PathOf(FX))
    /\ Exists(fs, PathOf(FSample))
    /\ ~Exists(fs, PathOf(FNested))
    /\ SRC_A \in dirs
    /\ UPPER_A \notin dirs

\* the directories that held an item of the batch
ItemDirs == {batch[i].src_path.dir : i \in DOMAIN batch}

\* d lies under one of the source roots
UnderARoot(d) == \E k \in DOMAIN source_roots : IsPrefix(source_roots[k], d)

\* a file with a video extension lies in d or below it
HoldsVideo(f, d) ==
    \E fp \in FilePaths : Exists(f, fp) /\ IsPrefix(d, fp.dir) /\ Lower(fp.ext) \in VIDEO_EXTS

\* the returned list reports that d could not be removed
HasCleanupError(d) ==
    \E k \in DOMAIN errors : errors[k] = [kind |-> "cleanup", dir |-> d]

\* C11: once a batch with source roots has returned, a directory under a source
\* root that held an item of the batch and holds no video at any depth is gone
\* with everything that was left in it (a leftover companion file included),
\* unless its removal failed and the returned list says so.
C11_VideolessDirRemoved ==
    (pc = "done" /\ source_roots # <<>>) =>
        \A d \in ItemDirs :
            (UnderARoot(d) /\ ~HoldsVideo(fs, d) /\ ~HasCleanupError(d)) =>
                /\ d \notin dirs
                /\ FilesUnder(fs, d) = {}

\* the video of src/a was moved, the copy of its subtitle file broke off, and
\* the sweep removed src/a with the subtitle file in it while src itself stayed
C11_Witness ==
    /\ pc = "done"
    /\ Moved(PathOf(FX))
    /\ MoveRaised(PathOf(FXSrt))
    /\ \E k \in DOMAIN swept : swept[k] = [dir |-> SRC_A, outcome |-> "removed"]
    /\ SRC_A \notin dirs
    /\ SRC \in dirs
    /\ ~Exists(fs, PathOf(FXSrt))
    /\ FileSize(fs, File(DST_P, "x", ".srt")) < SizeOf(FXSrt)

\* C12: in the sweep every candidate directory is visited whatever happened to
\* the ones before it, a removal that failed is in the returned error list,
\* and the sweep never ends by raising.
C12_SweepGoesOn ==
    (pc = "done" /\ source_roots # <<>>) =>
        /\ {swept[k].dir : k \in DOMAIN swept} = ItemDirs
        /\ \A k \in DOMAIN swept :
             swept[k].outcome = "failed" => HasCleanupError(swept[k].dir)
        /\ \A k \in DOMAIN errors : errors[k].kind # "sweep"

\* the removal of one directory failed and was reported, and a directory
\* visited after it was removed
C12_Witness ==
    /\ pc = "done"
    /\ \E k, m \in DOMAIN swept :
         /\ k < m
         /\ swept[k].outcome = "failed"
         /\ HasCleanupError(swept[k].dir)
         /\ swept[m].outcome = "removed"
         /\ swept[m].dir \notin dirs

\* the move of the file has been attempted
Touched(fp) == trace[fp].rename # "none"

\* C13: a file is first touched only while no other file is being copied; an
\* item's own file is touched when every earlier item of the batch has been
\* and no later one has; a companion file is touched after its item's own file
\* was moved and before the file of any later item is touched.
C13_InBatchOrder ==
    [][\A fp \in SourcePaths :
          (~Touched(fp) /\ trace'[fp].rename # "none") =>
              /\ copying = <<>>
              /\ \E i \in DOMAIN batch :
                   /\ \/ batch[i].src_path = fp
                      \/ fp \in CompanionsOf(i) /\ Moved(batch[i].src_path)
                   /\ \A j \in DOMAIN batch :
                        /\ j < i => Touched(batch[j].src_path)
                        /\ j > i => ~Touched(batch[j].src_path)]_vars

\* the batch has returned: the first item and its subtitle file were moved,
\* the first through the copy, and two more items were moved after them
C13_Witness ==
    /\ pc = "done"
    /\ Len(batch) = 3
    /\ batch[1].src_path = PathOf(FX)
    /\ trace[PathOf(FX)].copy = "ok"
    /\ Moved(PathOf(FXSrt))
    /\ Moved(batch[2].src_path)
    /\ Moved(batch[3].src_path)

\* where move_video_and_companions puts the companion fp of item i
CompanionDest(i, fp) == File(batch[i].dst_path.dir, batch[i].dst_path.stem, fp.ext)

\* the file lies at dst with all its bytes and all of them were reported
ArrivedAt(fp, dst) ==
    /\ Moved(fp)
    /\ fs[dst].id = (CHOOSE id \in Files : PathOf(id) = fp)
    /\ fs[dst].len = OriginalSize(fp)
    /\ trace[fp].reported = OriginalSize(fp)

\* C27: every companion of an item is moved into the item's destination
\* directory under the destination stem with its own extension, and its
\* bytes are reported.
C27_EveryCompanionMoved ==
    \A i \in DOMAIN batch :
        i < idx => \A fp \in CompanionsOf(i) : ArrivedAt(fp, CompanionDest(i, fp))

\* C29: the sweep never removes a source root itself, only directories
\* strictly below one, even when an item lay directly in the root and no
\* video is left there.
C29_RootNeverRemoved ==
    [][\A k \in DOMAIN source_roots :
          source_roots[k] \in dirs => source_roots[k] \in dirs']_vars

\* C30: after the batch and its sweep, every file of a batch item that was
\* not moved, the item's own or a companion, is still at its source path.
C30_UnmovedFilesSurvive ==
    pc = "done" =>
        \A i \in DOMAIN batch :
            \A fp \in {batch[i].src_path} \cup CompanionsOf(i) :
                ~Moved(fp) => Exists(fs, fp)

\* the content id of the file that lay at the source path before the batch
ContentOf(fp) == CHOOSE id \in Files : PathOf(id) = fp

\* the file that lay at fp before the batch is still somewhere, whole
ContentKept(fp) ==
    \E at \in FilePaths : fs[at].id = ContentOf(fp) /\ fs[at].len = OriginalSize(fp)

\* C31: a file that an item of the batch placed at its destination is not
\* deleted or overwritten by a later item: once two items with distinct
\* source files and one destination path have had their turn, the content of
\* both files still exists somewhere.
C31_EarlierFileSurvives ==
    \A i, j \in DOMAIN batch :
        (/\ i < j
         /\ j < idx
         /\ batch[i].src_path # batch[j].src_path
         /\ batch[i].dst_path = batch[j].dst_path
         /\ ~HasError(i)
         /\ ~HasError(j)) =>
            ContentKept(batch[i].src_path) /\ ContentKept(batch[j].src_path)

\* every file of the batch, the items' own and their companions, was moved
\* and no error was recorded
AllMoved ==
    /\ idx = Len(batch) + 1
    /\ \A k \in DOMAIN errors : errors[k].kind # "move"
    /\ \A i \in DOMAIN batch :
         \A fp \in {batch[i].src_path} \cup CompanionsOf(i) : Moved(fp)

\* C32: the running total given to the progress callback never exceeds the
\* total computed before the batch, and it equals that total after a batch
\* in which every file, the items' own and the companions, was moved without
\* an error.
C32_ProgressReachesTotal ==
    /\ done <= total_bytes
    /\ AllMoved => done = total_bytes


\* ========================================================================
\* The analysis: analyze_media_in_sources and build_media_item
\* ========================================================================
\* analyses one run of the window goes through
MaxScans == 2

\* pieces a file name of the classification specification is put together from
MaxParts == 2

\* ========================================================================
\* Text: names are strings, read one character at a time
\* ========================================================================
\* F(e), with e worked out once, before F uses it
Let(e, F(_)) == CHOOSE r \in {F(v) : v \in {e}} : TRUE

\* s[i-1:j] of a Python str: the characters at the 1-based positions i..j
\* that exist
Slice(s, i, j) ==
    LET a == IF i < 1 THEN 1 ELSE i
        b == IF j > Len(s) THEN Len(s) ELSE j
    IN  IF a > b THEN "" ELSE SubSeq(s, a, b)

\* the character at position i, "" past the ends
Ch(s, i) == Slice(s, i, i)

\* s[i-1:] of a Python str
From(s, i) == Slice(s, i, Len(s))

LowerLetters ==
    <<"a", "b", "c", "d", "e", "f", "g", "h", "i", "j", "k", "l", "m",
      "n", "o", "p", "q", "r", "s", "t", "u", "v", "w", "x", "y", "z">>

UpperLetters ==
    <<"A", "B", "C", "D", "E", "F", "G", "H", "I", "J", "K", "L", "M",
      "N", "O", "P", "Q", "R", "S", "T", "U", "V", "W", "X", "Y", "Z">>

Digits == <<"0", "1", "2", "3", "4", "5", "6", "7", "8", "9">>

\* regex \s on the characters the model's names are written with
IsSpace(c) == c = " "

\* regex \d
IsDigit(c) == \E i \in DOMAIN Digits : Digits[i] = c

\* regex [A-Za-z0-9]
IsAlnum(c) ==
    \/ IsDigit(c)
    \/ \E i \in DOMAIN LowerLetters : LowerLetters[i] = c \/ UpperLetters[i] = c

\* regex \w: a word character
IsWord(c) == IsAlnum(c) \/ c = "_"

\* regex [\-\u2013\u2014]: of the hyphen, the en dash and the em dash, the
\* hyphen alone is a character these names are written with
IsDash(c) == c = "-"

\* regex [\s._\-]
IsSeparator(c) == IsSpace(c) \/ c \in {".", "_", "-"}

\* str.upper() and str.lower() of one character
UpperChar(c) ==
    IF \E i \in DOMAIN LowerLetters : LowerLetters[i] = c
    THEN UpperLetters[CHOOSE i \in DOMAIN LowerLetters : LowerLetters[i] = c]
    ELSE c

LowerChar(c) ==
    IF \E i \in DOMAIN UpperLetters : UpperLetters[i] = c
    THEN LowerLetters[CHOOSE i \in DOMAIN UpperLetters : UpperLetters[i] = c]
    ELSE c

\* the least and the greatest of a non-empty set of integers
Least(numbers) == Let(numbers, LAMBDA S : CHOOSE n \in S : \A y \in S : n <= y)
Greatest(numbers) == Let(numbers, LAMBDA S : CHOOSE n \in S : \A y \in S : n >= y)

RECURSIVE Concat(_, _, _)
\* the pieces f[a], ..., f[b] of a text, joined in order
Concat(f, a, b) ==
    IF a > b THEN ""
    ELSE IF a = b THEN f[a]
    ELSE Let((a + b) \div 2, LAMBDA half : Concat(f, a, half) \o Concat(f, half + 1, b))

\* str.upper()
StrUpper(text) ==
    Let(text, LAMBDA s : Concat([i \in 1..Len(s) |-> UpperChar(Ch(s, i))], 1, Len(s)))

\* str.lower()
StrLower(text) ==
    Let(text, LAMBDA s : Concat([i \in 1..Len(s) |-> LowerChar(Ch(s, i))], 1, Len(s)))

\* str.startswith and str.endswith
StartsWith(s, p) == Len(s) >= Len(p) /\ Slice(s, 1, Len(p)) = p
EndsWith(s, p) == Len(s) >= Len(p) /\ From(s, Len(s) - Len(p) + 1) = p

\* the lower-case word w stands at position i of s, letter case ignored
OccursAt(s, w, i) ==
    /\ i >= 1
    /\ i + Len(w) - 1 <= Len(s)
    /\ LowerChar(Ch(s, i)) = Ch(w, 1)
    /\ StrLower(Slice(s, i, i + Len(w) - 1)) = w

\* regex \b between position i - 1 and position i of s
Boundary(s, i) ==
    LET before == i > 1 /\ i - 1 <= Len(s) /\ IsWord(Ch(s, i - 1))
        after  == i >= 1 /\ i <= Len(s) /\ IsWord(Ch(s, i))
    IN  before # after

\* the length of the run of characters of one class that begins at position i
SpaceRun(s, i) ==
    IF i > Len(s) THEN 0
    ELSE (CHOOSE j \in i..Len(s) + 1 :
              /\ j > Len(s) \/ ~IsSpace(Ch(s, j))
              /\ \A k \in i..j - 1 : IsSpace(Ch(s, k))) - i

DigitRun(s, i) ==
    IF i > Len(s) THEN 0
    ELSE (CHOOSE j \in i..Len(s) + 1 :
              /\ j > Len(s) \/ ~IsDigit(Ch(s, j))
              /\ \A k \in i..j - 1 : IsDigit(Ch(s, k))) - i

SeparatorRun(s, i) ==
    IF i > Len(s) THEN 0
    ELSE (CHOOSE j \in i..Len(s) + 1 :
              /\ j > Len(s) \/ ~IsSeparator(Ch(s, j))
              /\ \A k \in i..j - 1 : IsSeparator(Ch(s, k))) - i

\* the text without its trailing whitespace
RStripSpace(text) ==
    Let(text, LAMBDA s :
        Slice(s, 1, Greatest({0} \cup {i \in 1..Len(s) : ~IsSpace(Ch(s, i))})))

\* str.strip(chars)
StripChars(text, chars) ==
    Let(text, LAMBDA s :
    Let({i \in 1..Len(s) : Ch(s, i) \notin chars}, LAMBDA kept :
        IF kept = {} THEN "" ELSE Slice(s, Least(kept), Greatest(kept))))

\* re.sub(r"\s+", " ", s): of a run of whitespace the first character stays,
\* as a space
CollapseSpaces(text) ==
    Let(text, LAMBDA s :
        Concat([i \in 1..Len(s) |->
                   IF ~IsSpace(Ch(s, i)) THEN Ch(s, i)
                   ELSE IF i > 1 /\ IsSpace(Ch(s, i - 1)) THEN "" ELSE " "],
               1, Len(s)))

\* every character of s that is in chars replaced by r
ReplaceChars(text, chars, r) ==
    Let(text, LAMBDA s :
        Concat([i \in 1..Len(s) |-> IF Ch(s, i) \in chars THEN r ELSE Ch(s, i)],
               1, Len(s)))

\* the first position of the character c in s, 0 if there is none
IndexOf(text, c) ==
    Let(text, LAMBDA s :
        Let({i \in 1..Len(s) : Ch(s, i) = c},
            LAMBDA at : IF at = {} THEN 0 ELSE Least(at)))

RECURSIVE ToInt(_)
\* int() of a run of digits
ToInt(digits) ==
    Let(digits, LAMBDA ds :
        IF ds = "" THEN 0
        ELSE 10 * ToInt(Slice(ds, 1, Len(ds) - 1))
               + (CHOOSE i \in DOMAIN Digits : Digits[i] = Ch(ds, Len(ds))) - 1)

\* INVALID_WIN_CHARS
INVALID_WIN_CHARS == {"<", ">", ":", "\"", "/", "\\", "|", "?", "*"}

\* INVALID_WIN_NAMES
INVALID_WIN_NAMES ==
    {"CON", "PRN", "AUX", "NUL"}
        \cup {"COM" \o Digits[i] : i \in 2..10}
        \cup {"LPT" \o Digits[i] : i \in 2..10}

\* one pass of re.sub(r"\s*(?:\[[^\]]*\]|\([^\)]*\))\s*$", "", s): the
\* leftmost group that closes at the end of the text goes, with the
\* whitespace around it
StripOneTag(text) ==
    Let(text, LAMBDA s :
    Let(RStripSpace(s), LAMBDA t :
    Let(IF t = "" THEN "" ELSE Ch(t, Len(t)), LAMBDA closing :
    Let(IF closing = "]" THEN "[" ELSE "(", LAMBDA opening :
    Let({i \in 1..(Len(t) - 1) : Ch(t, i) = closing}, LAMBDA closed :
    Let(IF closed = {} THEN 0 ELSE Greatest(closed), LAMBDA after :
    Let({j \in (after + 1)..(Len(t) - 1) : Ch(t, j) = opening}, LAMBDA opens :
        IF closing \notin {"]", ")"} \/ opens = {} THEN s
        ELSE RStripSpace(Slice(t, 1, Least(opens) - 1)))))))))

RECURSIVE StripTrailingTags(_)
\* the while loop of strip_release_tags: passes until nothing changes
StripTrailingTags(text) ==
    Let(text, LAMBDA s :
    Let(StripOneTag(s), LAMBDA new :
        IF new = s THEN s ELSE StripTrailingTags(new)))

\* strip_release_tags(stem); its re.sub on the en and em dash (line 132)
\* finds neither in these names
StripReleaseTags(stem) ==
    StripChars(CollapseSpaces(StripTrailingTags(stem)), {" ", "-"})

\* re.sub(r"\s*[-\u2013\u2014]\s*$", "", t): one trailing dash goes, with the
\* whitespace around it
DropTrailingDash(text) ==
    Let(text, LAMBDA t :
    Let(RStripSpace(t), LAMBDA u :
        IF u # "" /\ IsDash(Ch(u, Len(u)))
        THEN RStripSpace(Slice(u, 1, Len(u) - 1))
        ELSE t))

\* beautify_spaces(text)
BeautifySpaces(text) ==
    StripChars(CollapseSpaces(DropTrailingDash(ReplaceChars(text, {"_", "."}, " "))),
               {" "})

\* a sanitize_filename that only tidies the whitespace
SanitizeFilenameSpacesOnly(name) == StripChars(CollapseSpaces(name), {" "})

\* sanitize_filename(name)
SanitizeFilename(name) ==
    Let(StripChars(CollapseSpaces(ReplaceChars(name, INVALID_WIN_CHARS, "_")), {" "}),
        LAMBDA clean :
    Let(IndexOf(clean, "."), LAMBDA dot :
    Let(IF dot = 0 THEN clean ELSE Slice(clean, 1, dot - 1), LAMBDA base :
    Let(IF dot = 0 THEN "" ELSE From(clean, dot), LAMBDA rest :
        (IF StrUpper(base) \in INVALID_WIN_NAMES THEN "_" \o base ELSE base) \o rest))))

\* re.search(r"\d+", str(v)): the first run of digits of the text, "" if
\* there is none
FirstDigits(text) ==
    Let(text, LAMBDA v :
    Let({i \in 1..Len(v) : IsDigit(Ch(v, i))}, LAMBDA at :
        IF at = {} THEN ""
        ELSE Let(Least(at), LAMBDA first :
                 Slice(v, first, first + DigitRun(v, first) - 1))))

\* _safe_int(v, default), v given as str(v) ("None" for None)
SafeInt(v, default) ==
    Let(FirstDigits(v), LAMBDA digits : IF digits = "" THEN default ELSE ToInt(digits))

\* os.path.splitext(fname) of a name without directory: split at the last
\* dot, unless only dots come before it
SplitExt(name) ==
    Let(name, LAMBDA fname :
    Let({i \in 1..Len(fname) : Ch(fname, i) = "."}, LAMBDA dots :
    Let(IF dots = {} THEN 0 ELSE Greatest(dots), LAMBDA last :
        IF last = 0 \/ \A i \in 1..(last - 1) : Ch(fname, i) = "."
        THEN [stem |-> fname, ext |-> ""]
        ELSE [stem |-> Slice(fname, 1, last - 1), ext |-> From(fname, last)])))

\* os.path.basename and os.path.dirname of a path
Basename(p) ==
    Let(p, LAMBDA path :
    Let({i \in 1..Len(path) : Ch(path, i) = "/"}, LAMBDA at :
        IF at = {} THEN path ELSE From(path, Greatest(at) + 1)))

Dirname(p) ==
    Let(p, LAMBDA path :
    Let({i \in 1..Len(path) : Ch(path, i) = "/"}, LAMBDA at :
    Let(IF at = {} THEN "" ELSE Slice(path, 1, Greatest(at)), LAMBDA head :
        IF StripChars(head, {"/"}) = "" THEN head
        ELSE Slice(head, 1, Greatest({i \in 1..Len(head) : Ch(head, i) # "/"})))))

\* str.startswith(".")
StartsWithDot(name) == StartsWith(name, ".")

\* the lower-case word w stands in s at position i between two word
\* boundaries, letter case ignored
WordAt(s, w, i) ==
    /\ OccursAt(s, w, i)
    /\ Boundary(s, i)
    /\ Boundary(s, i + Len(w))

\* SAMPLE_PATTERNS.search(fname)
MatchesSample(name) ==
    \E fname \in {name} :
        \E i \in 1..Len(fname) :
            \/ OccursAt(fname, "sample", i)
            \/ OccursAt(fname, "trailer", i)
            \/ \E w \in {"rarbg", "yts", "ettv", "eztv"} : WordAt(fname, w, i)

\* an Optional value: <<>> for Python's None, <<x>> for x
Nothing == <<>>
Some(x) == <<x>>

RECURSIVE TagsToEnd(_)
\* the text is bracketed or parenthesized groups side by side, then
\* whitespace: (?:\[[^\]]*\]|\([^\)]*\))*\s*$
TagsToEnd(text) ==
    \E r \in {text} :
        IF RStripSpace(r) = "" THEN TRUE
        ELSE IF Head(r) = "[" /\ IndexOf(r, "]") > 0
        THEN TagsToEnd(From(r, IndexOf(r, "]") + 1))
        ELSE IF Head(r) = "(" /\ IndexOf(r, ")") > 0
        THEN TagsToEnd(From(r, IndexOf(r, ")") + 1))
        ELSE FALSE

\* FALLBACK_NUMBERED_TITLE.match(cleaned_stem): the groups, if it matches.
\* The franchise is the shortest text after which whitespace, a number of
\* one to three digits and a dash stand; the title is the shortest text
\* without "[" and "(" after which only groups and whitespace are left.
NumberedTitleMatch(cleaned_stem) ==
    Let(cleaned_stem, LAMBDA text :
    LET n == Len(text)
        TitleOK(t0, m) ==
            /\ t0 + m - 1 <= n
            /\ \A i \in t0..(t0 + m - 1) : Ch(text, i) \notin {"[", "("}
            /\ TagsToEnd(From(text, t0 + m + SpaceRun(text, t0 + m)))
        \* g characters of whitespace skipped after the dash at q, then a
        \* title of m characters
        AfterDash(q) ==
            {p \in (0..SpaceRun(text, q + 1)) \X (1..n) : TitleOK(q + 1 + p[1], p[2])}
        \* the position of the dash when the franchise ends at f, 0 if the
        \* number and the dash do not follow
        DashAfter(f) ==
            Let(SpaceRun(text, f + 1), LAMBDA w :
            Let(DigitRun(text, f + 1 + w), LAMBDA r :
            Let(f + 1 + w + r + SpaceRun(text, f + 1 + w + r), LAMBDA q :
                IF w >= 1 /\ r \in 1..3 /\ q <= n /\ IsDash(Ch(text, q)) THEN q ELSE 0)))
        Ends(a) == {f \in (a + 1)..n :
                       \E q \in {DashAfter(f)} : q # 0 /\ AfterDash(q) # {}}
    IN  Let({a \in 0..SpaceRun(text, 1) : Ends(a) # {}}, LAMBDA good :
        IF good = {} THEN Nothing
        ELSE Let(Greatest(good), LAMBDA a :
             Let(Least(Ends(a)), LAMBDA f :
             Let(SpaceRun(text, f + 1), LAMBDA w :
             Let(DigitRun(text, f + 1 + w), LAMBDA r :
             Let(DashAfter(f), LAMBDA q :
             Let(AfterDash(q), LAMBDA titles :
             Let(Greatest({p[1] : p \in titles}), LAMBDA g :
             Let(Least({p[2] : p \in {u \in titles : u[1] = g}}), LAMBDA m :
                 Some([franchise |-> Slice(text, a + 1, f),
                       num |-> Slice(text, f + 1 + w, f + w + r),
                       title |-> Slice(text, q + 1 + g, q + g + m)])))))))))))

\* at position p of the text: the letter lead (or nothing, if lead is ""),
\* one or two digits, the letter mid, one to three digits, letter case
\* ignored: the two numbers and the position of the last digit
EpisodeMarkAt(text, p, lead, mid) ==
    Let(p + Len(lead), LAMBDA p1 :
    Let(DigitRun(text, p1), LAMBDA rs :
    Let(p1 + rs, LAMBDA pm :
    Let(DigitRun(text, pm + 1), LAMBDA re :
        IF /\ p >= 1
           /\ StrLower(Slice(text, p, p1 - 1)) = lead
           /\ rs \in 1..2
           /\ pm <= Len(text)
           /\ LowerChar(Ch(text, pm)) = mid
           /\ re \in 1..3
        THEN Some([s |-> Slice(text, p1, pm - 1),
                   e |-> Slice(text, pm + 1, pm + re), last |-> pm + re])
        ELSE Nothing))))

\* one pattern of SERIES_WITH_TITLE matched at the start of the text: the
\* title is the shortest text after which separators and the episode mark
\* stand, the mark ending at a word boundary
TitleThenMark(cleaned_stem, lead, mid) ==
    Let(cleaned_stem, LAMBDA text :
    \* where a mark that ends at a word boundary begins
    Let({p \in 2..Len(text) :
            \E k \in {EpisodeMarkAt(text, p, lead, mid)} :
                k # Nothing /\ Boundary(text, k[1].last + 1)}, LAMBDA marks :
    LET \* the title ends at f: the numbers of separators that may be skipped
        Skips(f) == {j \in 0..SeparatorRun(text, f + 1) : f + 1 + j \in marks}
        Ends(a) == {f \in (a + 1)..Len(text) : Skips(f) # {}}
    IN  Let({a \in 0..SpaceRun(text, 1) : Ends(a) # {}}, LAMBDA good :
        IF marks = {} \/ good = {} THEN Nothing
        ELSE Let(Greatest(good), LAMBDA a :
             Let(Least(Ends(a)), LAMBDA f :
             Let(Greatest(Skips(f)), LAMBDA j :
             Let(EpisodeMarkAt(text, f + 1 + j, lead, mid)[1], LAMBDA k :
                 Some([title |-> Slice(text, a + 1, f), s |-> k.s, e |-> k.e,
                       rest |-> From(text, k.last + 1)]))))))))

\* the first of SERIES_WITH_TITLE that matches: the groups and the text
\* after the match
SeriesWithTitleMatch(cleaned_stem) ==
    Let(cleaned_stem, LAMBDA text :
    Let(TitleThenMark(text, "s", "e"), LAMBDA first :
        IF first # Nothing THEN first ELSE TitleThenMark(text, "", "x")))

\* re.sub(r"[\s._\-]+$", "", text)
StripTrailingSeparators(prefix) ==
    Let(prefix, LAMBDA text :
        Slice(text, 1, Greatest({0} \cup {i \in 1..Len(text) : ~IsSeparator(Ch(text, i))})))

\* one of PATTERN_SxxEyy, PATTERN_NxM searched in the text: the leftmost
\* episode mark that stands between the start of the text or a character
\* that is no letter and no digit, and such a character or the end
MarkAnywhere(cleaned_stem, lead, mid) ==
    Let(cleaned_stem, LAMBDA text :
    LET MarkOK(p) ==
            \E k \in {EpisodeMarkAt(text, p, lead, mid)} :
                k # Nothing /\ (k[1].last = Len(text) \/ ~IsAlnum(Ch(text, k[1].last + 1)))
    IN  \* the match begins after b characters: at the start of the text,
        \* or with the character that comes before the mark
        Let(MarkOK(1), LAMBDA AtStart :
        Let({b \in 0..(Len(text) - 1) : ~IsAlnum(Ch(text, b + 1)) /\ MarkOK(b + 2)},
            LAMBDA Begins :
        IF ~AtStart /\ Begins = {} THEN Nothing
        ELSE Let(IF AtStart THEN 0 ELSE Least(Begins), LAMBDA b :
             Let(EpisodeMarkAt(text, IF AtStart THEN 1 ELSE b + 2, lead, mid)[1],
                 LAMBDA k :
                 Some([prefix |-> StripTrailingSeparators(Slice(text, 1, b)),
                       s |-> k.s, e |-> k.e,
                       rest |-> From(text, k.last + 2)]))))))

\* the first of PATTERN_SxxEyy, PATTERN_NxM found anywhere: the groups, the
\* text before the match without its trailing separators and the text
\* after the match
PatternAnywhereMatch(cleaned_stem) ==
    Let(cleaned_stem, LAMBDA text :
    Let(MarkAnywhere(text, "s", "e"), LAMBDA first :
        IF first # Nothing THEN first ELSE MarkAnywhere(text, "", "x")))

\* str.lstrip(chars)
LStripChars(text, chars) ==
    Let(text, LAMBDA s :
        From(s, Least({Len(s) + 1} \cup {i \in 1..Len(s) : Ch(s, i) \notin chars})))

\* the number of characters that
\* (?i)^(S?\s*\d{1,2}\s*[xE]\s*\d{1,3})(?:\s*[-_.])?\s* matches at the start
\* of the text, 0 if it does not match
LeadingMarkLen(text) ==
    Let(text, LAMBDA s :
    Let(IF LowerChar(Ch(s, 1)) = "s" THEN 2 ELSE 1, LAMBDA p1 :
    Let(p1 + SpaceRun(s, p1), LAMBDA p2 :
    Let(DigitRun(s, p2), LAMBDA rs :
    Let(p2 + rs + SpaceRun(s, p2 + rs), LAMBDA p3 :
    Let(p3 + 1 + SpaceRun(s, p3 + 1), LAMBDA p4 :
    Let(IF DigitRun(s, p4) > 3 THEN 3 ELSE DigitRun(s, p4), LAMBDA re :
    Let(p4 + re, LAMBDA p5 :
    Let(SpaceRun(s, p5), LAMBDA w :
    Let(IF Ch(s, p5 + w) \in {"-", "_", "."} THEN p5 + w + 1 ELSE p5, LAMBDA p6 :
    Let(p6 + SpaceRun(s, p6), LAMBDA p7 :
        IF rs \in 1..2 /\ LowerChar(Ch(s, p3)) \in {"x", "e"} /\ re >= 1
        THEN p7 - 1 ELSE 0)))))))))))

\* the whole text matches
\* (?i)\s*(?:[-_.])?\s*(S?\s*\d{1,2}\s*[xE]\s*\d{1,3})\s*
IsTrailingMark(text) ==
    \E u \in {text} :
    \E p1 \in {1 + SpaceRun(u, 1)} :
    \E p2 \in {IF Ch(u, p1) \in {"-", "_", "."} THEN p1 + 1 ELSE p1} :
    \E p3 \in {p2 + SpaceRun(u, p2)} :
    \E p4 \in {IF LowerChar(Ch(u, p3)) = "s" THEN p3 + 1 ELSE p3} :
    \E p5 \in {p4 + SpaceRun(u, p4)} :
    \E rs \in {DigitRun(u, p5)} :
    \E p6 \in {p5 + rs + SpaceRun(u, p5 + rs)} :
    \E p7 \in {p6 + 1 + SpaceRun(u, p6 + 1)} :
    \E re \in {DigitRun(u, p7)} :
    \E p8 \in {p7 + re + SpaceRun(u, p7 + re)} :
        /\ rs \in 1..2
        /\ LowerChar(Ch(u, p6)) \in {"x", "e"}
        /\ re \in 1..3
        /\ p8 = Len(u) + 1

\* re.sub of that pattern anchored at the end: the text before the leftmost
\* position from which the rest is an episode mark
DropTrailingMark(text) ==
    Let(text, LAMBDA s :
    Let({i \in 1..Len(s) : IsTrailingMark(From(s, i))}, LAMBDA at :
        IF at = {} THEN s ELSE Slice(s, 1, Least(at) - 1)))

\* clean_episode_title(s)
CleanEpisodeTitle(s) ==
    Let(LStripChars(s, {" ", ".", "-", "_", ":"}), LAMBDA s1 :
    Let(From(s1, LeadingMarkLen(s1) + 1), LAMBDA s2 :
        BeautifySpaces(StripReleaseTags(DropTrailingMark(s2)))))

\* the text before the first occurrence, between word boundaries and in
\* either letter case, of one of the lower-case words; the whole text if
\* there is none
BeforeWords(text, ws) ==
    Let(text, LAMBDA s :
    Let({i \in 1..Len(s) : \E w \in ws : WordAt(s, w, i)}, LAMBDA at :
        IF at = {} THEN s ELSE Slice(s, 1, Least(at) - 1)))

\* the word w stands in s at position i and a word boundary follows it
WordEndsAt(s, w, i) == OccursAt(s, w, i) /\ Boundary(s, i + Len(w))

\* re.search(r"^(?P<title>.+?)\s*-\s*Temporada\b", parent): the title, ""
\* if there is no match
TitleBeforeTemporada(text) ==
    Let(text, LAMBDA parent :
    LET Follows(f) ==
            \E d \in {f + 1 + SpaceRun(parent, f + 1)} :
            \E t \in {d + 1 + SpaceRun(parent, d + 1)} :
                Ch(parent, d) = "-" /\ WordEndsAt(parent, "temporada", t)
    IN  Let({f \in 1..Len(parent) : Follows(f)}, LAMBDA ends :
        IF ends = {} THEN "" ELSE Slice(parent, 1, Least(ends))))

\* guess_show_from_parent_dir(src_path); None is given as "", which the
\* callers, reading the result with "or", treat alike
GuessShowFromParentDir(src_path) ==
    Let(BeautifySpaces(StripReleaseTags(Basename(Dirname(src_path)))), LAMBDA parent :
    Let(TitleBeforeTemporada(parent), LAMBDA title :
        IF title # "" THEN SanitizeFilename(BeautifySpaces(title))
        ELSE Let(StripChars(BeforeWords(parent,
                                {"temporada", "completa", "dvdrip", "hdtv", "webdl",
                                 "web-dl", "web dl", "bluray"}),
                            {" ", "-"}),
                 LAMBDA cut : IF cut # "" THEN SanitizeFilename(cut) ELSE "")))

\* Python's "a or b" on texts, None given as ""
OrElse(a, b) == IF a = "" THEN b ELSE a

\* Python's "n or 1" on int
OrOne(n) == IF n = 0 THEN 1 ELSE n

\* Python's "v or ''" on an Optional text
TextOf(v) == IF v = Nothing THEN "" ELSE v[1]

\* Python's truth of a library value given as Optional str(value): a missing
\* key, an empty text and the number 0 are false
Truthy(v) == v # Nothing /\ v[1] \notin {"", "0"}

\* os.path.join
Join(a, b) == a \o "/" \o b

\* f"{n:02d}"
Pad2(n) == IF n < 10 THEN "0" \o ToString(n) ELSE ToString(n)

\* what one optional library answers for a file name. kind is "absent" (the
\* library is not installed), "raises" (its call raises) or "info" (it
\* returns a dict, an empty one for no answer); the values of the dict are
\* given as Optional str(value), Nothing for a key that is missing.
PTNInfo(kind, title, season, episode, episode_name) ==
    [kind |-> kind, title |-> title, season |-> season, episode |-> episode,
     episode_name |-> episode_name]

GuessitInfo(kind, type, title, season, episode, episode_list, episode_title, year) ==
    [kind |-> kind, type |-> type, title |-> title, season |-> season,
     episode |-> episode, episode_list |-> episode_list,
     episode_title |-> episode_title, year |-> year]

\* PTN is None / guessit is None
PTNAbsent == PTNInfo("absent", Nothing, Nothing, Nothing, "")
GuessitAbsent ==
    GuessitInfo("absent", "", Nothing, Nothing, Nothing, Nothing, "", Nothing)

\* strip_release_tags(stem) of the path's file name, and its extension
\* (".mkv" if it has none): lines 278-281
CleanedStem(src_path) == StripReleaseTags(SplitExt(Basename(src_path)).stem)

ExtOf(src_path) ==
    Let(SplitExt(Basename(src_path)).ext, LAMBDA ext : IF ext = "" THEN ".mkv" ELSE ext)

\* a movie descriptor that carries a season
MovieItemWithSeason(src_path, root, dst_name) ==
    [src_path |-> src_path, content_type |-> "movie", show_title |-> Nothing,
     season |-> Some(1), episodes |-> Nothing, dst_filename |-> dst_name,
     dst_dir |-> Join(root, "Películas"),
     dst_path |-> Join(Join(root, "Películas"), dst_name)]

\* MediaItem(src_path, "movie", None, None, None, dst_name, dst_dir, dst_path)
MovieItem(src_path, root, dst_name) ==
    Let(dst_name, LAMBDA name :
        [src_path |-> src_path, content_type |-> "movie", show_title |-> Nothing,
         season |-> Nothing, episodes |-> Nothing, dst_filename |-> name,
         dst_dir |-> Join(root, "Películas"),
         dst_path |-> Join(Join(root, "Películas"), name)])

\* the series descriptor every series rule builds (e.g. lines 304-308)
SeriesItem(src_path, root, show_title, season, eps, ep_title) ==
    Let(<<show_title, season, eps, ep_title>>, LAMBDA given :
    LET show   == given[1]
        number == given[2]
        ep_str == IF Len(given[3]) = 1
                  THEN Pad2(number) \o "x" \o Pad2(given[3][1])
                  ELSE Pad2(number) \o "x" \o Pad2(given[3][1]) \o "-"
                         \o Pad2(given[3][Len(given[3])])
        dir    == Join(Join(Join(root, "Series"), show), "Temporada " \o Pad2(number))
        base   == show \o " - " \o ep_str
                    \o (IF given[4] # "" THEN " - " \o given[4] ELSE "")
    IN  Let(SanitizeFilename(base \o ExtOf(src_path)), LAMBDA dst_name :
            [src_path |-> src_path, content_type |-> "series", show_title |-> Some(show),
             season |-> Some(number), episodes |-> Some(given[3]),
             dst_filename |-> dst_name, dst_dir |-> dir, dst_path |-> Join(dir, dst_name)]))

\* sanitize_filename(beautify_spaces(raw)) or guess_show_from_parent_dir(src_path)
\* or "Desconocido"
ShowTitle(raw, src_path) ==
    Let(SanitizeFilename(BeautifySpaces(raw)), LAMBDA own :
        IF own # "" THEN own
        ELSE Let(GuessShowFromParentDir(src_path), LAMBDA guessed :
                 OrElse(guessed, "Desconocido")))

\* the episode title both libraries' rules fall back on: that of the first
\* of PATTERN_SxxEyy, PATTERN_NxM found in the cleaned stem (lines 345-347)
EpisodeTitleAnywhere(cleaned_stem) ==
    Let(PatternAnywhereMatch(cleaned_stem), LAMBDA m_any :
        IF m_any # Nothing THEN CleanEpisodeTitle(m_any[1].rest) ELSE "")

\* the title both libraries' rules start from: the library's, else the
\* cleaned stem, cut down to the title group if SERIES_WITH_TITLE matches it
LibraryTitle(title, cleaned_stem) ==
    Let(IF TextOf(title) # "" THEN TextOf(title)
        ELSE Let(cleaned_stem, LAMBDA stem : OrElse(stem, "Desconocido")), LAMBDA tt :
    Let(SeriesWithTitleMatch(tt), LAMBDA mm :
        IF mm # Nothing THEN mm[1].title ELSE tt))

RECURSIVE ParsedEpisodes(_)
\* the episode_list entries that _safe_int(e, None) can read, in order
ParsedEpisodes(raw) ==
    IF raw = <<>> THEN <<>>
    ELSE Let(FirstDigits(Head(raw)), LAMBDA digits :
             IF digits = "" THEN ParsedEpisodes(Tail(raw))
             ELSE <<ToInt(digits)>> \o ParsedEpisodes(Tail(raw)))

\* rule 1, lines 284-293: the numbered-franchise movie
ByNumberedTitle(src_path, root) ==
    Let(NumberedTitleMatch(CleanedStem(src_path))[1], LAMBDA m_force :
    Let(SanitizeFilename(BeautifySpaces(m_force.franchise) \o " "
                           \o Pad2(OrOne(SafeInt(m_force.num, 1))) \o " - "
                           \o BeautifySpaces(m_force.title)), LAMBDA final_title :
        MovieItem(src_path, root, SanitizeFilename(final_title \o ExtOf(src_path)))))

\* rule 2, lines 296-308: a series with its title in front
BySeriesWithTitle(src_path, root) ==
    Let(SeriesWithTitleMatch(CleanedStem(src_path))[1], LAMBDA m :
        SeriesItem(src_path, root,
                   ShowTitle(BeforeWords(m.title, {"temporada"}), src_path),
                   OrOne(SafeInt(m.s, 1)), <<OrOne(SafeInt(m.e, 1))>>,
                   CleanEpisodeTitle(m.rest)))

\* rule 3, lines 311-323: a series pattern anywhere
ByPatternAnywhere(src_path, root) ==
    Let(PatternAnywhereMatch(CleanedStem(src_path))[1], LAMBDA m :
        SeriesItem(src_path, root, ShowTitle(m.prefix, src_path),
                   OrOne(SafeInt(m.s, 1)), <<OrOne(SafeInt(m.e, 1))>>,
                   CleanEpisodeTitle(m.rest)))

\* rule 4, lines 326-354: the answer of PTN
ByPTN(src_path, root, ptn) ==
    Let(CleanEpisodeTitle(ptn.episode_name), LAMBDA named :
        SeriesItem(src_path, root,
                   ShowTitle(LibraryTitle(ptn.title, CleanedStem(src_path)), src_path),
                   OrOne(SafeInt(TextOf(ptn.season), 1)),
                   <<OrOne(SafeInt(TextOf(ptn.episode), 1))>>,
                   IF named # "" THEN named
                   ELSE EpisodeTitleAnywhere(CleanedStem(src_path))))

\* rule 5, lines 357-397: the answer of guessit, an episode or a movie
ByGuessit(src_path, root, gi) ==
    IF gi.type = "episode"
    THEN Let(IF gi.episode_list = Nothing THEN <<>>
             ELSE ParsedEpisodes(gi.episode_list[1]), LAMBDA listed :
         Let(CleanEpisodeTitle(gi.episode_title), LAMBDA named :
             SeriesItem(src_path, root,
                        ShowTitle(LibraryTitle(gi.title, CleanedStem(src_path)), src_path),
                        OrOne(SafeInt(IF gi.season = Nothing THEN "1" ELSE gi.season[1], 1)),
                        IF listed # <<>> THEN listed
                        ELSE <<SafeInt(TextOf(gi.episode), 1)>>,
                        IF named # "" THEN named
                        ELSE EpisodeTitleAnywhere(CleanedStem(src_path)))))
    ELSE Let(SanitizeFilename(BeautifySpaces(
                 IF gi.title # Nothing THEN gi.title[1]
                 ELSE Let(CleanedStem(src_path), LAMBDA stem :
                          OrElse(stem, "Pelicula_Desconocida")))), LAMBDA movie :
             MovieItem(src_path, root,
                       SanitizeFilename(
                           IF Truthy(gi.year)
                           THEN movie \o " (" \o gi.year[1] \o ")" \o ExtOf(src_path)
                           ELSE movie \o ExtOf(src_path))))

\* rule 6, lines 399-403: the fallback movie
ByFallback(src_path, root) ==
    Let(BeautifySpaces(CleanedStem(src_path)), LAMBDA tidy :
        MovieItem(src_path, root,
                  SanitizeFilename(OrElse(tidy, "Pelicula_Desconocida")) \o ExtOf(src_path)))

\* the series rules tried before the numbered-franchise rule
RuleOrderSeriesFirst ==
    <<"with_title", "anywhere", "numbered", "ptn", "guessit", "fallback">>

\* the rules of build_media_item in the order of its code
RuleOrder == <<"numbered", "with_title", "anywhere", "ptn", "guessit", "fallback">>

\* the condition under which a rule returns a descriptor
Applies(rule, src_path, ptn, gi) ==
    CASE rule = "numbered" -> NumberedTitleMatch(CleanedStem(src_path)) # Nothing
      [] rule = "with_title" -> SeriesWithTitleMatch(CleanedStem(src_path)) # Nothing
      [] rule = "anywhere" -> PatternAnywhereMatch(CleanedStem(src_path)) # Nothing
      [] rule = "ptn" -> ptn.kind = "info" /\ (ptn.season # Nothing \/ ptn.episode # Nothing)
      [] rule = "guessit" -> gi.kind = "info"
      [] rule = "fallback" -> TRUE

\* the descriptor a rule returns
Produce(rule, src_path, root, ptn, gi) ==
    CASE rule = "numbered" -> ByNumberedTitle(src_path, root)
      [] rule = "with_title" -> BySeriesWithTitle(src_path, root)
      [] rule = "anywhere" -> ByPatternAnywhere(src_path, root)
      [] rule = "ptn" -> ByPTN(src_path, root, ptn)
      [] rule = "guessit" -> ByGuessit(src_path, root, gi)
      [] rule = "fallback" -> ByFallback(src_path, root)

RECURSIVE FirstRuleFrom(_, _, _, _, _)
\* the place in the order of the first rule, from place k on, that applies
FirstRuleFrom(order, k, src_path, ptn, gi) ==
    IF Applies(order[k], src_path, ptn, gi) THEN k
    ELSE FirstRuleFrom(order, k + 1, src_path, ptn, gi)

\* the place in the order of the first rule that applies; the fallback
\* always does
FirstRule(order, src_path, ptn, gi) == FirstRuleFrom(order, 1, src_path, ptn, gi)

\* the libraries build_media_item calls: those installed whose rule is
\* reached
Asked(src_path, ptn, gi) ==
    Let(FirstRule(RuleOrder, src_path, ptn, gi), LAMBDA first :
        {RuleOrder[k] : k \in {j \in 1..first :
            \/ RuleOrder[j] = "ptn" /\ ptn.kind # "absent"
            \/ RuleOrder[j] = "guessit" /\ gi.kind # "absent"}})

\* build_media_item(src_path, dst_root), the two libraries answering ptn and gi
BuildMediaItem(src_path, root, ptn, gi) ==
    Produce(RuleOrder[FirstRule(RuleOrder, src_path, ptn, gi)],
            src_path, root, ptn, gi)

\* ------------------------------------------------------------------------
\* The folders an analysis walks
\* ------------------------------------------------------------------------
\* os.path.isdir on the names a source row can hold
IsDir(folder) == folder = "r1"

\* os.walk: the files and the sub-folders of each folder, as listed
DirFiles(dir) ==
    CASE dir = "r1" -> <<"Saga 02 - Title.mkv", "Show S01E02 [x264].mkv",
                         "Film.2010.mkv", "Show.E05.mkv", "S01E03.mkv",
                         ".hidden.mkv", "notes.txt", "sample.mkv", "Clip.MKV">>
      [] dir = "r1/.hid" -> <<"In S01E01.mkv">>
      [] dir = "r1/sub" -> <<"Other 1x04.mkv", "Other 1x04.srt", "Show-Trailer.mp4">>
      [] dir = "r1/sub/.deep" -> <<"Deep S02E01.avi">>
      [] OTHER -> <<>>

DirSubdirs(dir) ==
    CASE dir = "r1" -> <<".hid", "sub">>
      [] dir = "r1/sub" -> <<".deep">>
      [] OTHER -> <<>>

\* PTN.parse(fname) of the parse-torrent-name library for the names of these
\* folders
PTNParse(fname) ==
    CASE fname = "Film.2010.mkv" -> PTNInfo("info", Some("Film"), Nothing, Nothing, "")
      [] fname = "Show.E05.mkv" -> PTNInfo("info", Some("Show"), Nothing, Some("5"), "")
      [] OTHER -> PTNInfo("info", Nothing, Nothing, Nothing, "")

\* guessit(fname) of the guessit library, likewise
Guessit(fname) ==
    CASE fname = "Film.2010.mkv" ->
             GuessitInfo("info", "movie", Some("Film"), Nothing, Nothing, Nothing, "",
                         Some("2010"))
      [] fname = "Show.E05.mkv" ->
             GuessitInfo("info", "episode", Some("Show"), Nothing, Some("5"), Nothing, "",
                         Nothing)
      [] OTHER -> GuessitInfo("info", "movie", Nothing, Nothing, Nothing, Nothing, "",
                              Nothing)

\* a filter that looks at the extension only
KeptAnyVideo(fname) == \E e \in VIDEO_EXTS : EndsWith(StrLower(fname), e)

\* not fname.startswith("."), fname.lower().endswith(VIDEO_EXTS), not
\* SAMPLE_PATTERNS.search(fname): lines 249-254
Kept(fname) ==
    /\ ~StartsWithDot(fname)
    /\ \E e \in VIDEO_EXTS : EndsWith(StrLower(fname), e)
    /\ ~MatchesSample(fname)

RECURSIVE WalkFrom(_)
RECURSIVE WalkAll(_, _)
\* os.walk(src_folder, topdown=True) with the sub-folders that start with "."
\* pruned: the files met, as [root_dir, fname], in walk order
WalkFrom(dir) ==
    [i \in DOMAIN DirFiles(dir) |-> [root_dir |-> dir, fname |-> DirFiles(dir)[i]]]
        \o WalkAll(dir, SelectSeq(DirSubdirs(dir), LAMBDA d : ~StartsWithDot(d)))

WalkAll(dir, subs) ==
    IF subs = <<>> THEN <<>>
    ELSE WalkFrom(Join(dir, Head(subs))) \o WalkAll(dir, Tail(subs))

\* the build_media_item calls of one source folder: [fname, parent, dst_root, item]
CallsOf(folder, root, has_ptn, has_guessit) ==
    LET met  == IF folder = "" \/ ~IsDir(folder) THEN <<>> ELSE WalkFrom(folder)
        kept == SelectSeq(met, LAMBDA e : Kept(e.fname))
    IN  [i \in DOMAIN kept |->
            [fname |-> kept[i].fname, parent |-> kept[i].root_dir, dst_root |-> root,
             item |-> BuildMediaItem(Join(kept[i].root_dir, kept[i].fname), root,
                                     IF has_ptn THEN PTNParse(kept[i].fname)
                                     ELSE PTNAbsent,
                                     IF has_guessit THEN Guessit(kept[i].fname)
                                     ELSE GuessitAbsent)]]

\* the characters of the names these folders give, in code point order
CodePoints ==
    " !\"#$%&'()*+,-./0123456789:;<=>?@ABCDEFGHIJKLMNOPQRSTUVWXYZ[\\]^_abcdefghijklmnopqrstuvwxyz{|}~"

\* the place of a character in that order
Ord(c) == Least({i \in 1..Len(CodePoints) : Ch(CodePoints, i) = c})

\* a < b on two Python str: the first character that differs decides, a
\* proper prefix comes first
StrLess(a, b) ==
    LET n    == IF Len(a) < Len(b) THEN Len(a) ELSE Len(b)
        diff == {i \in 1..n : Ch(a, i) # Ch(b, i)}
    IN  IF diff = {} THEN Len(a) < Len(b)
        ELSE Ord(Ch(a, Least(diff))) < Ord(Ch(b, Least(diff)))

\* the place of a text among texts: how many of them come before it
Rank(text, texts) == Cardinality({t \in texts : StrLess(t, text)})

\* it.show_title or "Desconocido"
ShowKey(it) == OrElse(TextOf(it.show_title), "Desconocido")

\* the entries of a plan of descriptors, as _populate_tree reads them
DescriptorRows(its) ==
    LET names == {StrLower(its[i].dst_filename) : i \in DOMAIN its}
        shows == {StrLower(ShowKey(its[i])) : i \in DOMAIN its}
    IN  [i \in DOMAIN its |->
            Row(its[i], its[i].content_type, ShowKey(its[i]),
                Rank(StrLower(ShowKey(its[i])), shows),
                IF its[i].season = Nothing THEN 0 ELSE its[i].season[1],
                Rank(StrLower(its[i].dst_filename), names))]

\* a variant in which a button that was disabled comes back enabled
BusyOffEnables(state) == "normal"

\* _set_busy(False) on btn_apply and btn_install: the state is kept (lines 771-772)
BusyOff(state) == state

\* the texts of the destination entry in the analysis specification
ScanDstTexts == {" ", "nas", "nas2"}

InitScan ==
    /\ InitApp
    /\ ~HAS_PTN
    /\ ~HAS_GUESSIT
    /\ IdleMove
    /\ IdleScan
    /\ toggled = <<>>

\* on_analyze up to the start of its worker, whose call of
\* analyze_media_in_sources(sources, dst) begins
start_analysis ==
    /\ NoBox
    /\ btn_analyze = "normal"
    /\ InFlight < MaxInFlight
    /\ scans < MaxScans
    /\ sources # <<>>
    /\ Strip(dst_var) # ""
    /\ btn_analyze' = "disabled"
    /\ btn_apply' = "disabled"
    /\ btn_install' = "disabled"
    /\ SetTree(ClearTree(Tree))
    /\ analyzing' = analyzing + 1
    /\ selected_plan' = <<>>
    /\ src_folders' = sources
    /\ dst_root' = Strip(dst_var)
    /\ scan_idx' = 1
    /\ items' = <<>>
    /\ UNCHANGED <<at_box, plan, HAS_PTN, HAS_GUESSIT, sources, dst_var, moving, installing,
                   moveVars, toggled, classified, scans, request, descriptor>>

\* one turn of the loop over src_folders: a folder that is empty text or not
\* a directory is passed over, any other is walked
scan_folder ==
    /\ analyzing > 0
    /\ scan_idx \in DOMAIN src_folders
    /\ LET calls == CallsOf(src_folders[scan_idx], dst_root, HAS_PTN, HAS_GUESSIT)
       IN  /\ items' = items \o [i \in DOMAIN calls |-> calls[i].item]
           /\ classified' = classified \cup Range(calls)
    /\ scan_idx' = scan_idx + 1
    /\ UNCHANGED <<appVars, moveVars, toggled, src_folders, dst_root, scans, request,
                   descriptor>>

\* the worker returns its list and on_analyze.finish runs: self.plan = plan,
\* _populate_tree(plan), which offers apply if a file row is Checked, then
\* _set_busy(False)
finish_analysis ==
    /\ analyzing > 0
    /\ scan_idx > Len(src_folders)
    /\ plan' = items
    /\ \E t \in {PopulateTree(DescriptorRows(items))} :
         /\ SetTree(t)
         /\ btn_apply' = BusyOff(IF HasAnyLeafSelected(t) THEN "normal" ELSE "disabled")
    /\ btn_install' = BusyOff(btn_install)
    /\ btn_analyze' = "normal"
    /\ analyzing' = analyzing - 1
    /\ scans' = scans + 1
    /\ scan_idx' = 0
    /\ selected_plan' = <<>>
    /\ UNCHANGED <<at_box, HAS_PTN, HAS_GUESSIT, sources, dst_var, moving, installing,
                   moveVars, toggled, src_folders, dst_root, items, classified,
                   request, descriptor>>

NextScan ==
    \/ \E p \in {"gone"} : add_source_dialog(p)
    \/ \E sel \in SUBSET (DOMAIN sources) : remove_selected_sources(sel)
    \/ \E text \in ScanDstTexts : set_dst(text)
    \/ start_analysis
    \/ scan_folder
    \/ finish_analysis
    \/ on_install_deps
    \/ \E ptn \in BOOLEAN, gi \in BOOLEAN : install_finish(ptn, gi)

SpecScan == InitScan /\ [][NextScan]_vars

\* ========================================================================
\* Properties of the analysis (checked under SpecScan)
\* ========================================================================
\* C14: no analysis runs with a source root that is not a directory or with
\* no destination root: the operation fails before anything is scanned.
C14_FailsFastOnInvalidRoots ==
    analyzing > 0 =>
        /\ dst_root # ""
        /\ \A i \in DOMAIN src_folders : IsDir(src_folders[i])

\* C20: two build_media_item calls for the same file name in the same parent
\* folder with the same destination root return the same descriptor, whenever
\* in the run they were made.
C20_ClassifyDeterministic ==
    \A a, b \in classified :
        (a.fname = b.fname /\ a.parent = b.parent /\ a.dst_root = b.dst_root) =>
            a.item = b.item

\* two analyses have run after guessit was installed during the run: the
\* files only guessit can place were classified by it, for two destinations
C20_Witness ==
    /\ scans = 2
    /\ HAS_GUESSIT
    /\ \E a, b \in classified :
         /\ a.fname = "Film.2010.mkv" /\ a.dst_root = "nas"
         /\ a.item.dst_filename = "Film (2010).mkv"
         /\ b.fname = "Film.2010.mkv" /\ b.dst_root = "nas2"
    /\ \E c \in classified :
         c.fname = "Show.E05.mkv" /\ c.item.content_type = "series"

\* C25: every item of a plan comes from a file with a recognised video
\* extension whose name does not start with ".", does not match
\* SAMPLE_PATTERNS, and that lies under no folder starting with "." below its
\* source root; no other file of the folders is in the plan.
C25_OnlyVisibleVideos ==
    \A i \in DOMAIN items :
        LET path  == items[i].src_path
            fname == Basename(path)
        IN  /\ StrLower(SplitExt(fname).ext) \in {".avi", ".mkv", ".mp4", ".mov", ".wmv", ".flv"}
            /\ Ch(fname, 1) # "."
            /\ ~MatchesSample(fname)
            /\ \E k \in DOMAIN src_folders :
                   /\ StartsWith(path, src_folders[k] \o "/")
                   /\ \A j \in (Len(src_folders[k]) + 1)..(Len(path) - 1) :
                          ~(Ch(path, j) = "/" /\ Ch(path, j + 1) = ".")

\* an analysis has walked a root that holds hidden files, hidden folders with
\* videos in them, a sample, a trailer and a text file: the plan has the six
\* videos of the root and the one of its visible sub-folder
C25_Witness ==
    /\ scans >= 1
    /\ analyzing = 0
    /\ src_folders = <<"r1">>
    /\ Len(items) = 7
    /\ \E i \in DOMAIN items : items[i].src_path = "r1/Clip.MKV"
    /\ \E i \in DOMAIN items : items[i].src_path = "r1/sub/Other 1x04.mkv"

\* ========================================================================
\* build_media_item alone: one call on a file name the analysis passes on
\* ========================================================================
\* the pieces the file names are put together from
Parts ==
    {"Saga 02 - ", "Title", "S01E02", " 1x03", "S00E00", "CON", "a:b?", " [x264]",
     " -", "_"}

RECURSIVE StemsOf(_)
\* the stems of at most n pieces
StemsOf(n) ==
    IF n = 0 THEN {""}
    ELSE StemsOf(n - 1) \cup {s \o p : s \in StemsOf(n - 1), p \in Parts}

\* the folders the files lie in
ParentDirs == {"r1", "r1/Lost - Temporada 1"}

\* what the two libraries do on a call: absent, raising, answering nothing
\* (None or an empty dict), or answering with some of the keys the code reads
LibraryCases ==
    {<<PTNAbsent, GuessitAbsent>>,
     <<PTNInfo("raises", Nothing, Nothing, Nothing, ""),
       GuessitInfo("raises", "", Nothing, Nothing, Nothing, Nothing, "", Nothing)>>,
     <<PTNInfo("info", Nothing, Nothing, Nothing, ""),
       GuessitInfo("info", "", Nothing, Nothing, Nothing, Nothing, "", Nothing)>>,
     <<PTNInfo("info", Some("Show"), Some("x"), Some("5"), ""), GuessitAbsent>>,
     <<PTNInfo("info", Some("Film"), Nothing, Nothing, ""),
       GuessitInfo("info", "episode", Some("Show"), Nothing, Some("0"), Nothing, "",
                   Nothing)>>,
     <<PTNAbsent,
       GuessitInfo("info", "episode", Nothing, Some("3"), Some("4"),
                   Some(<<"4", "5">>), "Two.Parts", Nothing)>>,
     <<PTNAbsent,
       GuessitInfo("info", "movie", Some("Film"), Nothing, Nothing, Nothing, "",
                   Some("2010"))>>,
     <<PTNAbsent,
       GuessitInfo("info", "movie", Some("a:b"), Nothing, Nothing, Nothing, "",
                   Some("0"))>>}

\* the calls analyze_media_in_sources can make: a file name that passes its
\* filters, in a folder, for a destination root, the libraries as they are
Requests ==
    {[src_path |-> Join(d, s \o ".mkv"), dst_root |-> "nas", ptn |-> l[1], gi |-> l[2]] :
        s \in {t \in StemsOf(MaxParts) : Kept(t \o ".mkv")},
        d \in ParentDirs, l \in LibraryCases}

InitClassify ==
    /\ InitApp
    /\ IdleMove
    /\ toggled = <<>>
    /\ src_folders = <<>>
    /\ dst_root = ""
    /\ scan_idx = 0
    /\ items = <<>>
    /\ classified = {}
    /\ scans = 0
    /\ request \in {Some(r) : r \in Requests}
    /\ HAS_PTN = (request[1].ptn.kind # "absent")
    /\ HAS_GUESSIT = (request[1].gi.kind # "absent")
    /\ descriptor = <<>>

\* item = build_media_item(src_path, dst_root): lines 257-259
build_media_item_call ==
    /\ request # <<>>
    /\ descriptor = <<>>
    /\ descriptor' =
           Some([item |-> BuildMediaItem(request[1].src_path, request[1].dst_root,
                                         request[1].ptn, request[1].gi),
                 asked |-> Asked(request[1].src_path, request[1].ptn, request[1].gi),
                 cleaned_stem |-> CleanedStem(request[1].src_path)])
    /\ UNCHANGED <<appVars, moveVars, toggled, src_folders, dst_root, scan_idx, items,
                   classified, scans, request>>

NextClassify == build_media_item_call

SpecClassify == InitClassify /\ [][NextClassify]_vars

\* ------------------------------------------------------------------------
\* Claims on build_media_item
\* ------------------------------------------------------------------------
\* the call a descriptor came from, and the descriptor
Classified == request # <<>> /\ descriptor # <<>>

\* C21: the rules are tried in the order numbered-franchise movie, series
\* with leading title, series pattern anywhere, parse-torrent-name, guessit,
\* fallback movie; the descriptor is the one of the first rule in that order
\* that matches, no library whose rule comes later is called, and a name
\* that matches both the numbered-franchise form and a series form is a
\* movie.
C21_FirstMatchWins ==
    Classified =>
        LET r       == request[1]
            claimed == <<"numbered", "with_title", "anywhere", "ptn", "guessit", "fallback">>
            matches == {k \in 1..6 : Applies(claimed[k], r.src_path, r.ptn, r.gi)}
            first   == Least(matches)
        IN  /\ descriptor[1].item
                 = Produce(claimed[first], r.src_path, r.dst_root, r.ptn, r.gi)
            /\ descriptor[1].asked \subseteq {claimed[k] : k \in 1..first}
            /\ (1 \in matches /\ (2 \in matches \/ 3 \in matches))
                 => descriptor[1].item.content_type = "movie"

\* a name of both forms, classified as a movie
C21_Witness ==
    /\ Classified
    /\ Applies("numbered", request[1].src_path, request[1].ptn, request[1].gi)
    /\ Applies("with_title", request[1].src_path, request[1].ptn, request[1].gi)
    /\ request[1].ptn.kind = "info"
    /\ descriptor[1].item.content_type = "movie"
    /\ descriptor[1].asked = {}

\* C22: build_media_item never fails; a library that is absent, raises or
\* has nothing to say passes the name on to the next rule, and a name no
\* rule matches gets the fallback movie descriptor built from the cleaned
\* stem.
C22_FallbackWhenNoRuleMatches ==
    Classified =>
        LET r       == request[1]
            silent  == /\ r.ptn.season = Nothing /\ r.ptn.episode = Nothing
                       /\ r.ptn.title = Nothing
                       /\ r.gi.type = "" /\ r.gi.title = Nothing /\ r.gi.year = Nothing
                       /\ r.gi.season = Nothing /\ r.gi.episode = Nothing
            unnamed == \A rule \in {"numbered", "with_title", "anywhere"} :
                           ~Applies(rule, r.src_path, r.ptn, r.gi)
        IN  (silent /\ unnamed) => descriptor[1].item = ByFallback(r.src_path, r.dst_root)

\* C23: no descriptor carries a season or an episode number below 1; a
\* number that cannot be read counts as 1.
C23_NumbersAtLeastOne ==
    (Classified /\ descriptor[1].item.content_type = "series") =>
        /\ descriptor[1].item.season[1] >= 1
        /\ \A i \in DOMAIN descriptor[1].item.episodes[1] :
               descriptor[1].item.episodes[1][i] >= 1

\* C24: show_title, season and episodes are all there on a series descriptor
\* and all None on a movie descriptor, and a series has at least one episode.
C24_SeriesFieldsIffSeries ==
    Classified =>
        LET item == descriptor[1].item
        IN  /\ item.content_type \in {"movie", "series"}
            /\ item.content_type = "series" =>
                   /\ item.show_title # Nothing /\ item.show_title[1] # ""
                   /\ item.season # Nothing
                   /\ item.episodes # Nothing /\ Len(item.episodes[1]) >= 1
            /\ item.content_type = "movie" =>
                   /\ item.show_title = Nothing
                   /\ item.season = Nothing
                   /\ item.episodes = Nothing

\* a series descriptor of two episodes and a movie descriptor of a library
C24_Witness ==
    /\ Classified
    /\ \/ /\ descriptor[1].item.content_type = "series"
          /\ Len(descriptor[1].item.episodes[1]) = 2
          /\ descriptor[1].asked = {"guessit"}
       \/ /\ descriptor[1].item.content_type = "movie"
          /\ descriptor[1].item.dst_filename = "Film (2010).mkv"

\* C26: the show folder, the season folder and the file name of every
\* descriptor hold no character that Windows forbids, and the text of each
\* before its first dot is not a reserved device name in any case.
C26_SegmentsAreSafe ==
    Classified =>
        LET item     == descriptor[1].item
            r        == request[1]
            category == IF item.content_type = "series" THEN "Series" ELSE "Películas"
            below    == IF item.content_type = "series"
                        THEN <<item.show_title[1], "Temporada " \o Pad2(item.season[1]),
                               item.dst_filename>>
                        ELSE <<item.dst_filename>>
            folders     == SubSeq(below, 1, Len(below) - 1)
            RECURSIVE Under(_, _)
            Under(dir, segs) == IF segs = <<>> THEN dir
                                ELSE Under(Join(dir, Head(segs)), Tail(segs))
        IN  /\ item.dst_dir = Under(Join(r.dst_root, category), folders)
            /\ item.dst_path = Join(item.dst_dir, item.dst_filename)
            /\ \A k \in DOMAIN below :
                   LET seg  == below[k]
                       dot  == IndexOf(seg, ".")
                       base == IF dot = 0 THEN seg ELSE Slice(seg, 1, dot - 1)
                   IN  /\ \A i \in 1..Len(seg) : Ch(seg, i) \notin INVALID_WIN_CHARS
                       /\ StrUpper(base) \notin INVALID_WIN_NAMES

\* a show folder made from a name with forbidden characters, or a file name
\* made from a reserved one
C26_Witness ==
    /\ Classified
    /\ \/ descriptor[1].item.show_title = Some("a_b_")
       \/ descriptor[1].item.dst_filename = "_CON.mkv"

\* C28: strip_release_tags reaches a fixed point: its result does not end
\* with a group in brackets or parentheses, and applying it to its own
\* result changes nothing.
C28_StripReachesFixedPoint ==
    Classified =>
        /\ StripOneTag(descriptor[1].cleaned_stem) = descriptor[1].cleaned_stem
        /\ StripReleaseTags(descriptor[1].cleaned_stem) = descriptor[1].cleaned_stem

====
